---- MODULE Spec2Model ----
(***************************************************************************)
(* Online index build coordinator of the execution engine:                 *)
(* IndexManager::CreateConcurrently, IndexManager::Drop and                *)
(* IndexManager::PopulateIndex, run against the transaction manager and    *)
(* the versioned index catalog, together with concurrent reader            *)
(* transactions.                                                           *)
(***************************************************************************)
EXTENDS Integers, Sequences, FiniteSets, TLC

\* ------------------------------------------------------------------ bounds
\* Reader transactions may begin while the global timestamp is below MaxTime.
MaxTime == 6
\* Largest number of tuples of the base table.
MaxRows == 2
\* Number of concurrent reader transactions.
NumWorkers == 1
\* Largest number of tuples of the base table in the runs of PopulateIndex alone.
MaxScanRows == 4
\* Largest number of translators added to one Pipeline.
MaxPipeline == 3
\* Largest number of NextStep calls recorded after the last Add.
MaxNextSteps == 4
\* Largest number of tuples the OutputStore callbacks deliver in all.
MaxOutRows == 2
\* Largest number of OutputStore callbacks.
MaxCallbacks == 2
\* Largest number of rows of pg_namespace, and of namespace oids.
MaxNamespaces == 2
\* Largest number of NamespaceHandle lookups in one transaction.
MaxLookups == 2
\* Largest number of column oids added to an IndexIterator.
MaxColOids == 2
\* Largest number of IndexIterator::Init calls on one iterator.
MaxInits == 2
\* Largest number of rows that concurrent writers add to the base table.
MaxWrites == 2
\* Number of distinct predicate expressions, and of output schemas.
MaxPredicates == 2

\* ------------------------------------------------------------- the universe
Workers == 1..NumWorkers
\* Two concurrent calls of IndexManager::Drop.
Droppers == {"d1", "d2"}
\* table_oid arguments: UserTable is in the catalog, NoSuchTable is not.
UserTable == "test_1"
NoSuchTable == "no_such_table"
TableOids == {UserTable, NoSuchTable}
\* key_attrs arguments: KeyAttr is a column of UserTable, NoSuchAttr is not.
KeyAttr == "col0"
NoSuchAttr == "no_such_col"
\* The index that exists before any call, the target of the Drop calls.
OldIndex == "idx_old"
\* The oid handed out by Catalog::GetNextOid to CreateConcurrently.
NewIndex == "idx_new"
IndexOids == {OldIndex, NewIndex}

NoTxn == 0
NoTime == 0
NoEntry == [present |-> FALSE]
NoWrite == [write |-> "none"]
NullPtr == "nullptr"
\* The operator translators handed to Pipeline::Add.
Translators == {"t1", "t2"}

VARIABLES
    time,          \* TransactionManager::time_, the global timestamp counter
    active,        \* start timestamps of the running transactions
    catalog,       \* index_oid -> version chain of the pg_index row
    building,      \* index_id -> "unset" | "false" | "true" (the building flag)
    index_obj,     \* index_oid -> "none" | "alive" | "destroyed"
    index_keys,    \* <<key, slot>> pairs held by the index being built
    destroys,      \* number of `delete index` executed on OldIndex's container
    crashed,       \* the process died on a null dereference
    wild_delete,   \* `delete` was applied to a pointer read through a null entry
    \* ---- locals of the one CreateConcurrently call
    c_pc, table_oid, unique_index, key_attrs, txn1, index_oid, index,
    c_write,       \* the uncommitted pg_index write of txn1 / build_txn
    commit_time, build_txn, sql_table, scan_pos, success, build_commit_time,
    txn1_end,      \* "none" | "committed" | "aborted"
    \* ---- locals of the Drop calls and of the reader transactions
    dr, wk,
    \* ---- compiler::Pipeline
    pipeline_,        \* std::vector<OperatorTranslator *> pipeline_
    pipeline_index_,  \* the position NextStep decrements
    returned,         \* what the NextStep calls since the last Add returned
    \* ---- sema::Sema, one builtin call expression
    call,             \* the ast::CallExpr as parsed: builtin name, argument expressions
    arguments,        \* call->arguments(), which the check may rewrite
    call_type,        \* call->type(), Unresolved (null) until set_type
    errors,           \* the diagnostics in the error reporter, in order
    sema_pc,          \* "idle" | "parsed" | "checked"
    past_end,         \* the check read call->arguments()[i] with i >= num_args()
    \* ---- compiler::OutputStore in front of a MultiChecker of a NumChecker and a
    \* ---- SingleIntSortChecker
    output,           \* OutputStore::output, the current output batch
    curr_count_,      \* NumChecker::curr_count_
    expected_count_,  \* NumChecker::expected_count_
    prev_val_,        \* SingleIntSortChecker::prev_val_
    col_idx_,         \* SingleIntSortChecker::col_idx_
    sort_arg,         \* the col_idx argument SingleIntSortChecker was constructed with
    callbacks,        \* num_tuples of each OutputStore callback so far
    batches,          \* the argument of each ProcessBatch call so far
    expect_failed,    \* an EXPECT_TRUE of SingleIntSortChecker failed
    num_verdict,      \* "none" | "pass" | "fail": EXPECT_EQ of NumChecker::CheckCorrectness
    \* ---- catalog::NamespaceHandle
    pg_namespace,     \* the rows of pg_namespace the transaction sees, in scan order
    ns_log,           \* the GetNamespaceEntry calls made and what each returned
    \* ---- sql::IndexIterator
    col_oids_,        \* the column oids added so far
    table_buffer_,    \* NullPtr or a buffer of heap
    index_buffer_,    \* NullPtr or a buffer of heap
    heap,             \* buffer -> how often it was freed, for every buffer allocated
    it_pc,            \* "none" | "alive" | "destroyed" | "aborted"
    asserts_on,       \* the build compiles TERRIER_ASSERT in
    \* ---- plan_node::IndexScanPlanNode
    lhs, rhs,         \* two plan nodes
    plan_out,         \* the results of lhs == rhs, rhs == lhs, lhs.Hash(), rhs.Hash()
    \* ---- a writer transaction on the base table
    wr,               \* the writer: its transaction, the entry it saw, its tuple
    written           \* slot -> "uncommitted" | "committed" | "aborted" for its tuples

vars == <<time, active, catalog, building, index_obj, index_keys, destroys, crashed,
          wild_delete, c_pc, table_oid, unique_index, key_attrs, txn1, index_oid, index,
          c_write, commit_time, build_txn, sql_table, scan_pos, success,
          build_commit_time, txn1_end, dr, wk, pipeline_, pipeline_index_, returned,
          call, arguments, call_type, errors, sema_pc, past_end, output, curr_count_,
          expected_count_, prev_val_, col_idx_, sort_arg, callbacks, batches,
          expect_failed, num_verdict, pg_namespace, ns_log, col_oids_, table_buffer_,
          index_buffer_, heap, it_pc, asserts_on, lhs, rhs, plan_out, wr, written>>

\* The variables of the components other than the index manager.
pipe_vars == <<pipeline_, pipeline_index_, returned>>
sema_vars == <<call, arguments, call_type, errors, sema_pc, past_end>>
ns_vars == <<pg_namespace, ns_log>>
iter_vars == <<col_oids_, table_buffer_, index_buffer_, heap, it_pc, asserts_on>>
plan_vars == <<lhs, rhs, plan_out>>
writer_vars == <<wr, written>>
unit_vars == <<output, curr_count_, expected_count_, prev_val_, col_idx_, sort_arg,
               callbacks, batches, expect_failed, num_verdict, ns_vars, iter_vars, plan_vars>>
elsewhere == <<pipe_vars, sema_vars, unit_vars, writer_vars>>
\* The variables of the index manager, the transactions and the catalog.
index_vars == <<time, active, catalog, building, index_obj, index_keys, destroys, crashed,
                wild_delete, c_pc, table_oid, unique_index, key_attrs, txn1, index_oid,
                index, c_write, commit_time, build_txn, sql_table, scan_pos, success,
                build_commit_time, txn1_end, dr, wk>>

shared == <<time, active, catalog, building, index_obj, index_keys, destroys, crashed,
            wild_delete>>
c_locals == <<c_pc, table_oid, unique_index, key_attrs, txn1, index_oid, index, c_write,
              commit_time, build_txn, sql_table, scan_pos, success, build_commit_time,
              txn1_end>>

\* ------------------------------------------------------------ ast::Type
\* Types are records: a builtin kind, a pointer, a function, the string type.
\* Unresolved stands for the null ast::Type * of an expression without a type.
Unresolved == [k |-> "unresolved"]
BT(kind) == [k |-> "builtin", kind |-> kind]
PointerTo(t) == [k |-> "pointer", base |-> t]
FunctionType(params, ret) == [k |-> "function", params |-> params, ret |-> ret]
StringType == [k |-> "string"]

IntegerKinds == {"Int8", "Int32", "Uint8", "Uint32", "Uint64"}
SqlValueKinds == {"Boolean", "Integer", "Real"}
AggregatorKinds == {"CountAggregate"}

IsSpecificBuiltin(t, kind) == t.k = "builtin" /\ t.kind = kind
IsIntegerType(t) == t.k = "builtin" /\ t.kind \in IntegerKinds
IsFloatType(t) == IsSpecificBuiltin(t, "Float32")
IsBoolType(t) == IsSpecificBuiltin(t, "Bool")
IsSqlValueType(t) == t.k = "builtin" /\ t.kind \in SqlValueKinds
IsSqlAggregatorType(t) == t.k = "builtin" /\ t.kind \in AggregatorKinds
IsPointerType(t) == t.k = "pointer"
IsFunctionType(t) == t.k = "function"
IsStringType(t) == t.k = "string"
\* type->GetPointeeType(): the pointee, or null when type is not a pointer.
GetPointeeType(t) == IF t.k = "pointer" THEN t.base ELSE Unresolved

IsPointerToSpecificBuiltin(t, kind) ==
    GetPointeeType(t) # Unresolved /\ IsSpecificBuiltin(GetPointeeType(t), kind)
IsPointerToSQLValue(t) ==
    GetPointeeType(t) # Unresolved /\ IsSqlValueType(GetPointeeType(t))
IsPointerToAggregatorValue(t) ==
    GetPointeeType(t) # Unresolved /\ IsSqlAggregatorType(GetPointeeType(t))

OpaquePtr == PointerTo(BT("Uint8"))
\* The types the argument expressions of the analysed calls have.
ArgTypes ==
    LET ValueTypes == {BT(kd) : kd \in {"Nil", "Bool", "Int32", "Uint32", "Uint64", "Float32"}
                                       \cup SqlValueKinds}
        OpaqueKinds == {"AggregationHashTable", "JoinHashTable", "JoinHashTableIterator",
                        "Sorter", "MemoryPool", "ExecutionContext", "ThreadStateContainer",
                        "TableVectorIterator", "ProjectedColumnsIterator", "FilterManager",
                        "IndexIterator"}
        ObjectPointers == {PointerTo(BT(kd)) : kd \in OpaqueKinds \cup AggregatorKinds}
        DataPointers == {PointerTo(BT(kd)) : kd \in {"Uint8", "Int8", "Uint64", "Integer"}}
        PointerPointers == {PointerTo(PointerTo(BT(kd))) :
                               kd \in {"ProjectedColumnsIterator", "Uint64"}}
        FunctionTypes ==
            { FunctionType(<<OpaquePtr, OpaquePtr>>, BT("Int32")),
              FunctionType(<<OpaquePtr, OpaquePtr, OpaquePtr>>, BT("Bool")),
              FunctionType(<<OpaquePtr, OpaquePtr, PointerTo(BT("TableVectorIterator"))>>,
                           BT("Nil")),
              FunctionType(<<PointerTo(BT("ProjectedColumnsIterator"))>>, BT("Int32")),
              FunctionType(<<>>, BT("Nil")) }
    IN ValueTypes \cup ObjectPointers \cup DataPointers \cup PointerPointers
           \cup FunctionTypes \cup {StringType}

\* ------------------------------------------------------------ ast::Expr
\* An argument expression: its syntactic form, the type Resolve gives it
\* (Unresolved when its resolution fails and reports), and for `*X` the type
\* that the pointer-type representation of X resolves to.
Expr(form, type, repr) == [form |-> form, type |-> type, repr |-> repr]
StringLiteral == Expr("string_literal", StringType, Unresolved)
BadExpr == Expr("expr", Unresolved, Unresolved)
\* Besides the values of every type, the string literal and the ill-typed
\* expression: `*Int32`, not a value but the name of a pointer type, and `*p`
\* for a variable p of type *Int32, a value that names no type.
ArgExprs ==
    {Expr("expr", t, Unresolved) : t \in ArgTypes}
        \cup {StringLiteral, BadExpr, Expr("star", Unresolved, PointerTo(BT("Int32"))),
              Expr("star", BT("Int32"), Unresolved)}

IsStringLiteral(e) == e.form = "string_literal"

\* ------------------------------------------------------------ sema::Sema
\* The outcome of checking a call: the diagnostics the check reported, the type
\* it set, the argument list it left, whether it read an argument that was not
\* supplied, and whether it dereferenced the invalid pointer such a read gave.
Outcome(errs, type, args) ==
    [errors |-> errs, type |-> type, args |-> args, past_end |-> FALSE, fault |-> FALSE]
\* call->set_type(type) on a path that reported nothing.
Accept(c, type) == Outcome(<<>>, type, c.args)
\* error_reporter()->Report(..., kind, ...); return;
Report(c, kind) == Outcome(<<kind>>, Unresolved, c.args)
\* ReportIncorrectCallArg(call, index, expected); return;
ReportIncorrectCallArg(c, arg_index) == Report(c, "kIncorrectCallArgType")
\* The return after a failed CheckArgCount / CheckArgCountAtLeast, which reported.
ReportMismatchedArgs(c) == Report(c, "kMismatchedCallArgs")
CheckArgCount(c, n) == Len(c.args) = n
CheckArgCountAtLeast(c, n) == Len(c.args) >= n
\* call->arguments()[i]->type() for an i the check knows to be supplied.
ArgType(c, i) == c.args[i + 1].type
\* call->arguments()[i]->type() with no arity check before it.
ArgTypeOr(c, i, junk) == IF i < Len(c.args) THEN ArgType(c, i) ELSE junk
\* What follows a read of call->arguments()[i]: with i >= num_args() the
\* element is whatever lies behind the vector, junk; dereferencing it faults
\* when it is no ast::Expr, and otherwise the check goes on, to o, with its type.
Guarded(c, i, junk, o) ==
    IF i < Len(c.args) THEN o
    ELSE IF junk = Unresolved
    THEN [o EXCEPT !.errors = <<>>, !.type = Unresolved, !.past_end = TRUE, !.fault = TRUE]
    ELSE [o EXCEPT !.past_end = TRUE]

CheckBuiltinSqlConversionCall(c) ==
    IF ~CheckArgCount(c, 1) THEN ReportMismatchedArgs(c)
    ELSE LET input_type == ArgType(c, 0)
         IN CASE c.builtin = "BoolToSql" ->
                    IF ~IsSpecificBuiltin(input_type, "Bool")
                    THEN Report(c, "kInvalidSqlCastToBool")
                    ELSE Accept(c, BT("Boolean"))
              [] c.builtin = "IntToSql" ->
                    IF ~IsIntegerType(input_type)
                    THEN Report(c, "kInvalidSqlCastToBool")
                    ELSE Accept(c, BT("Integer"))
              [] c.builtin = "FloatToSql" ->
                    IF ~IsFloatType(input_type)
                    THEN Report(c, "kInvalidSqlCastToBool")
                    ELSE Accept(c, BT("Real"))
              [] c.builtin = "SqlToBool" ->
                    IF ~IsSpecificBuiltin(input_type, "Boolean")
                    THEN Report(c, "kInvalidSqlCastToBool")
                    ELSE Accept(c, BT("Bool"))

CheckBuiltinFilterCall(c) ==
    IF ~CheckArgCount(c, 3) THEN ReportMismatchedArgs(c)
    ELSE IF ~IsPointerToSpecificBuiltin(ArgType(c, 0), "ProjectedColumnsIterator")
    THEN ReportIncorrectCallArg(c, 0)
    ELSE IF ~IsSpecificBuiltin(ArgType(c, 1), "Int32")
    THEN ReportIncorrectCallArg(c, 1)
    ELSE Accept(c, BT("Int32"))

\* The cases AggHashTableInit, AggHashTableLookup and AggHashTableProcessBatch.
CheckBuiltinAggHashTableCall(c) ==
    IF ~CheckArgCountAtLeast(c, 1) THEN ReportMismatchedArgs(c)
    ELSE IF ~IsPointerToSpecificBuiltin(ArgType(c, 0), "AggregationHashTable")
    THEN ReportIncorrectCallArg(c, 0)
    ELSE CASE c.builtin = "AggHashTableInit" ->
                 IF ~CheckArgCount(c, 3) THEN ReportMismatchedArgs(c)
                 ELSE IF ~IsPointerToSpecificBuiltin(ArgType(c, 1), "MemoryPool")
                 THEN ReportIncorrectCallArg(c, 1)
                 ELSE IF ~IsSpecificBuiltin(ArgType(c, 2), "Uint32")
                 THEN ReportIncorrectCallArg(c, 2)
                 ELSE Accept(c, BT("Nil"))
           [] c.builtin = "AggHashTableLookup" ->
                 IF ~CheckArgCount(c, 4) THEN ReportMismatchedArgs(c)
                 ELSE IF ~IsSpecificBuiltin(ArgType(c, 1), "Uint64")
                 THEN ReportIncorrectCallArg(c, 1)
                 ELSE IF ~IsFunctionType(ArgType(c, 2))
                 THEN ReportIncorrectCallArg(c, 2)
                 ELSE Accept(c, PointerTo(BT("Uint8")))
           [] c.builtin = "AggHashTableProcessBatch" ->
                 IF ~CheckArgCount(c, 7) THEN ReportMismatchedArgs(c)
                 ELSE IF \/ ~IsPointerType(ArgType(c, 1))
                         \/ IsPointerToSpecificBuiltin(GetPointeeType(ArgType(c, 1)), "Uint64")
                 THEN ReportIncorrectCallArg(c, 1)
                 ELSE IF ~(\A i \in 2..5 : IsFunctionType(ArgType(c, i)))
                 THEN ReportIncorrectCallArg(c, 2)
                 ELSE IF ~IsBoolType(ArgType(c, 6))
                 THEN ReportIncorrectCallArg(c, 6)
                 ELSE Accept(c, BT("Nil"))

\* FirstNonAggregator: the 0-based positions of the arguments AggInit / AggReset
\* refuse.
CheckBuiltinAggregatorCall(c) ==
    LET FirstNonAggregator ==
            {i \in 0..(Len(c.args) - 1) : ~IsPointerToAggregatorValue(ArgType(c, i))}
    IN
    CASE c.builtin \in {"AggInit", "AggReset"} ->
             IF FirstNonAggregator # {}
             THEN Report(c, "kNotASQLAggregate")
             ELSE Accept(c, BT("Nil"))
      [] c.builtin = "AggAdvance" ->
             IF ~CheckArgCount(c, 2) THEN ReportMismatchedArgs(c)
             ELSE IF ~IsPointerToAggregatorValue(ArgType(c, 0))
             THEN Report(c, "kNotASQLAggregate")
             ELSE IF ~IsPointerToSQLValue(ArgType(c, 1))
             THEN Report(c, "kNotASQLAggregate")
             ELSE Accept(c, BT("Nil"))
      [] c.builtin = "AggMerge" ->
             IF ~CheckArgCount(c, 2) THEN ReportMismatchedArgs(c)
             ELSE IF \/ ~IsPointerToAggregatorValue(ArgType(c, 0))
                     \/ ~IsPointerToAggregatorValue(ArgType(c, 1))
             THEN Report(c, "kNotASQLAggregate")
             ELSE Accept(c, BT("Nil"))
      [] c.builtin = "AggResult" ->
             IF ~CheckArgCount(c, 1) THEN ReportMismatchedArgs(c)
             ELSE IF ~IsPointerToAggregatorValue(ArgType(c, 0))
             THEN Report(c, "kNotASQLAggregate")
             ELSE Accept(c, BT("Integer"))

CheckBuiltinJoinHashTableInit(c) ==
    IF ~CheckArgCount(c, 3) THEN ReportMismatchedArgs(c)
    ELSE IF ~IsPointerToSpecificBuiltin(ArgType(c, 0), "JoinHashTable")
    THEN ReportIncorrectCallArg(c, 0)
    ELSE IF ~IsPointerToSpecificBuiltin(ArgType(c, 1), "MemoryPool")
    THEN ReportIncorrectCallArg(c, 1)
    ELSE IF ~IsIntegerType(ArgType(c, 2))
    THEN ReportIncorrectCallArg(c, 2)
    ELSE Accept(c, BT("Nil"))

CheckBuiltinJoinHashTableInsert(c) ==
    IF ~CheckArgCount(c, 2) THEN ReportMismatchedArgs(c)
    ELSE IF ~IsPointerToSpecificBuiltin(ArgType(c, 0), "JoinHashTable")
    THEN ReportIncorrectCallArg(c, 0)
    ELSE IF ~IsSpecificBuiltin(ArgType(c, 1), "Uint64")
    THEN ReportIncorrectCallArg(c, 1)
    ELSE Accept(c, PointerTo(BT("Uint8")))

CheckBuiltinJoinHashTableBuild(c) ==
    IF ~CheckArgCountAtLeast(c, 1) THEN ReportMismatchedArgs(c)
    ELSE IF ~IsPointerToSpecificBuiltin(ArgType(c, 0), "JoinHashTable")
    THEN ReportIncorrectCallArg(c, 0)
    ELSE CASE c.builtin = "JoinHashTableBuild" -> Accept(c, BT("Nil"))
           [] c.builtin = "JoinHashTableBuildParallel" ->
                 IF ~CheckArgCount(c, 3) THEN ReportMismatchedArgs(c)
                 ELSE IF ~IsPointerToSpecificBuiltin(ArgType(c, 1), "ThreadStateContainer")
                 THEN ReportIncorrectCallArg(c, 1)
                 ELSE IF ~IsSpecificBuiltin(ArgType(c, 2), "Uint32")
                 THEN ReportIncorrectCallArg(c, 2)
                 ELSE Accept(c, BT("Nil"))

\* key_eq_type: a function of three pointer parameters that returns bool.
CheckBuiltinJoinHashTableIterHasNext(c) ==
    LET IsKeyEqFunction(t) ==
            /\ IsFunctionType(t)
            /\ Len(t.params) = 3
            /\ IsSpecificBuiltin(t.ret, "Bool")
            /\ \A i \in 1..3 : IsPointerType(t.params[i])
    IN
    IF ~CheckArgCount(c, 4) THEN ReportMismatchedArgs(c)
    ELSE IF ~IsPointerToSpecificBuiltin(ArgType(c, 0), "JoinHashTableIterator")
    THEN ReportIncorrectCallArg(c, 0)
    ELSE IF ~IsKeyEqFunction(ArgType(c, 1))
    THEN Report(c, "kBadEqualityFunctionForJHTGetNext")
    ELSE IF ~IsPointerType(ArgType(c, 2))
    THEN Report(c, "kBadPointerForJHTGetNext")
    ELSE IF ~IsPointerType(ArgType(c, 3))
    THEN Report(c, "kBadPointerForJHTGetNext")
    ELSE Accept(c, BT("Bool"))

\* call_args[0] is read before any look at the number of arguments.
CheckBuiltinTableIterCall(c, junk) ==
    Guarded(c, 0, junk,
        IF ~IsPointerToSpecificBuiltin(ArgTypeOr(c, 0, junk), "TableVectorIterator")
        THEN ReportIncorrectCallArg(c, 0)
        ELSE CASE c.builtin = "TableIterInit" ->
                     IF ~CheckArgCount(c, 3) THEN ReportMismatchedArgs(c)
                     ELSE IF ~IsStringLiteral(c.args[2])
                     THEN ReportIncorrectCallArg(c, 1)
                     ELSE IF ~IsPointerToSpecificBuiltin(ArgType(c, 2), "ExecutionContext")
                     THEN ReportIncorrectCallArg(c, 2)
                     ELSE Accept(c, BT("Nil"))
               [] c.builtin = "TableIterAdvance" -> Accept(c, BT("Bool"))
               [] c.builtin = "TableIterGetPCI" ->
                     Accept(c, PointerTo(BT("ProjectedColumnsIterator")))
               [] c.builtin = "TableIterClose" -> Accept(c, BT("Nil")))

\* scan_fn_type: a function of three parameters, two pointers and a
\* *TableVectorIterator.
CheckBuiltinTableIterParCall(c) ==
    LET IsScanFunction(t) ==
            /\ IsFunctionType(t)
            /\ Len(t.params) = 3
            /\ IsPointerType(t.params[1])
            /\ IsPointerType(t.params[2])
            /\ IsPointerToSpecificBuiltin(t.params[3], "TableVectorIterator")
    IN
    IF ~CheckArgCount(c, 4) THEN ReportMismatchedArgs(c)
    ELSE IF ~IsStringLiteral(c.args[1])
    THEN ReportIncorrectCallArg(c, 0)
    ELSE IF ~IsPointerType(ArgType(c, 1))
    THEN ReportIncorrectCallArg(c, 1)
    ELSE IF ~IsPointerToSpecificBuiltin(ArgType(c, 2), "ThreadStateContainer")
    THEN ReportIncorrectCallArg(c, 2)
    ELSE IF ~IsScanFunction(ArgType(c, 3))
    THEN Report(c, "kBadParallelScanFunction")
    ELSE Accept(c, BT("Nil"))

\* ImplCastExprToType(expr, type, cast_kind): a new cast node around expr.
ImplCastExprToType(e, type, cast_kind) ==
    [form |-> "implicit_cast", type |-> type, repr |-> Unresolved,
     cast_kind |-> cast_kind, input |-> e]

\* Mutant of CheckBuiltinPCIMatch: no cast is inserted for a SQL boolean.
CheckBuiltinPCIMatchNoCast(c) ==
    IF ~CheckArgCount(c, 2) THEN ReportMismatchedArgs(c)
    ELSE IF ~IsBoolType(c.args[2].type)
         THEN ReportIncorrectCallArg(c, 1)
         ELSE Outcome(<<>>, BT("Nil"), c.args)

\* case ast::Builtin::PCIMatch of CheckBuiltinPCICall.
CheckBuiltinPCIMatch(c) ==
    IF ~CheckArgCount(c, 2) THEN ReportMismatchedArgs(c)
    ELSE LET match_arg == IF IsSpecificBuiltin(c.args[2].type, "Boolean")
                          THEN ImplCastExprToType(c.args[2], BT("Bool"), "SqlBoolToBool")
                          ELSE c.args[2]
             new_arguments == [c.args EXCEPT ![2] = match_arg]
         IN IF ~IsBoolType(match_arg.type)
            THEN Outcome(<<"kIncorrectCallArgType">>, Unresolved, new_arguments)
            ELSE Outcome(<<>>, BT("Nil"), new_arguments)

CheckBuiltinPCICall(c) ==
    IF ~CheckArgCountAtLeast(c, 1) THEN ReportMismatchedArgs(c)
    ELSE IF ~IsPointerToSpecificBuiltin(ArgType(c, 0), "ProjectedColumnsIterator")
    THEN ReportIncorrectCallArg(c, 0)
    ELSE CASE c.builtin \in {"PCIIsFiltered", "PCIHasNext", "PCIHasNextFiltered",
                              "PCIAdvance", "PCIAdvanceFiltered", "PCIReset",
                              "PCIResetFiltered"} -> Accept(c, BT("Bool"))
           [] c.builtin = "PCIMatch" -> CheckBuiltinPCIMatch(c)
           [] c.builtin \in {"PCIGetSmallInt", "PCIGetInt", "PCIGetBigInt"} ->
                 Accept(c, BT("Integer"))
           [] c.builtin \in {"PCIGetReal", "PCIGetDouble"} -> Accept(c, BT("Real"))

CheckBuiltinHashCall(c) ==
    IF ~CheckArgCountAtLeast(c, 1) THEN ReportMismatchedArgs(c)
    ELSE IF \E i \in 0..(Len(c.args) - 1) : ~IsSqlValueType(ArgType(c, i))
    THEN Report(c, "kBadHashArg")
    ELSE Accept(c, BT("Uint64"))

\* The case FilterManagerInsertFilter.  A filter is a one-parameter function of
\* a *ProjectedColumnsIterator that returns an integer.
CheckBuiltinFilterManagerCall(c) ==
    LET IsFilterFunction(t) ==
            /\ IsFunctionType(t)
            /\ IsIntegerType(t.ret)
            /\ Len(t.params) = 1
            /\ IsPointerToSpecificBuiltin(t.params[1], "ProjectedColumnsIterator")
    IN
    IF ~CheckArgCountAtLeast(c, 1) THEN ReportMismatchedArgs(c)
    ELSE IF ~IsPointerToSpecificBuiltin(ArgType(c, 0), "FilterManager")
    THEN ReportIncorrectCallArg(c, 0)
    ELSE IF \E arg_idx \in 1..(Len(c.args) - 1) : ~IsFilterFunction(ArgType(c, arg_idx))
    THEN Report(c, "kIncorrectCallArgType")
    ELSE Accept(c, BT("Nil"))

TrigBuiltins == {"ACos", "ASin", "ATan", "Cos", "Cot", "Sin", "Tan"}

CheckMathTrigCall(c) ==
    CASE c.builtin = "ATan2" ->
             IF ~CheckArgCount(c, 2) THEN ReportMismatchedArgs(c)
             ELSE IF \/ ~IsSpecificBuiltin(ArgType(c, 0), "Real")
                     \/ ~IsSpecificBuiltin(ArgType(c, 1), "Real")
             THEN ReportIncorrectCallArg(c, 1)
             ELSE Accept(c, BT("Real"))
      [] c.builtin \in TrigBuiltins ->
             IF ~CheckArgCount(c, 1) THEN ReportMismatchedArgs(c)
             ELSE IF ~IsSpecificBuiltin(ArgType(c, 0), "Real")
             THEN ReportIncorrectCallArg(c, 0)
             ELSE Accept(c, BT("Real"))

CheckBuiltinSizeOfCall(c) ==
    IF ~CheckArgCount(c, 1) THEN ReportMismatchedArgs(c)
    ELSE Accept(c, BT("Uint32"))

\* The diagnostic Resolve(arg) leaves when it returns null.
ResolveError == "argument resolution error"
\* Resolve(arg): the type of the expression, null when its check failed.
Resolve(e) == e.type
\* node_factory()->NewPointerType(position, unary_op->expr()): its type is
\* what the operand of the star names, null when that names no type.
NewPointerType(e) == [form |-> "pointer_type", type |-> e.repr, repr |-> Unresolved]

CheckBuiltinPtrCastCall(c) ==
    IF ~CheckArgCount(c, 2) THEN ReportMismatchedArgs(c)
    ELSE IF c.args[1].form # "star" THEN Report(c, "kBadArgToPtrCast")
    ELSE LET arguments0 == [c.args EXCEPT ![1] = NewPointerType(c.args[1])]
         IN IF Resolve(arguments0[1]) = Unresolved
            THEN Outcome(<<ResolveError>>, Unresolved, arguments0)
            ELSE IF Resolve(arguments0[2]) = Unresolved
            THEN Outcome(<<ResolveError>>, Unresolved, arguments0)
            ELSE IF ~IsPointerType(arguments0[1].type) \/ ~IsPointerType(arguments0[2].type)
            THEN Outcome(<<"kBadArgToPtrCast">>, Unresolved, arguments0)
            ELSE Outcome(<<>>, arguments0[1].type, arguments0)

\* cmp_func_type: a function of two pointer parameters that returns Int32.
CheckBuiltinSorterInit(c) ==
    LET IsComparisonFunction(t) ==
            /\ IsFunctionType(t)
            /\ Len(t.params) = 2
            /\ IsSpecificBuiltin(t.ret, "Int32")
            /\ IsPointerType(t.params[1])
            /\ IsPointerType(t.params[2])
    IN
    IF ~CheckArgCount(c, 4) THEN ReportMismatchedArgs(c)
    ELSE IF ~IsPointerToSpecificBuiltin(ArgType(c, 0), "Sorter")
    THEN ReportIncorrectCallArg(c, 0)
    ELSE IF ~IsPointerToSpecificBuiltin(ArgType(c, 1), "MemoryPool")
    THEN ReportIncorrectCallArg(c, 1)
    ELSE IF ~IsComparisonFunction(ArgType(c, 2))
    THEN Report(c, "kBadComparisonFunctionForSorter")
    ELSE IF ~IsSpecificBuiltin(ArgType(c, 3), "Uint32")
    THEN ReportIncorrectCallArg(c, 3)
    ELSE Accept(c, BT("Nil"))

\* The cases SorterSortParallel and SorterSortTopKParallel: call_args[1] and
\* call_args[2] are read with no look at the number of arguments; junk[1] and
\* junk[2] are what those reads give when the argument was not supplied.
CheckBuiltinSorterSort(c, junk) ==
    IF ~CheckArgCountAtLeast(c, 1) THEN ReportMismatchedArgs(c)
    ELSE IF ~IsPointerToSpecificBuiltin(ArgType(c, 0), "Sorter")
    THEN ReportIncorrectCallArg(c, 0)
    ELSE Guarded(c, 1, junk[1],
        IF ~IsPointerToSpecificBuiltin(ArgTypeOr(c, 1, junk[1]), "ThreadStateContainer")
        THEN ReportIncorrectCallArg(c, 1)
        ELSE Guarded(c, 2, junk[2],
            IF ~IsSpecificBuiltin(ArgTypeOr(c, 2, junk[2]), "Uint32")
            THEN ReportIncorrectCallArg(c, 2)
            ELSE IF c.builtin = "SorterSortTopKParallel"
            THEN IF ~CheckArgCount(c, 4) THEN ReportMismatchedArgs(c)
                 ELSE IF ~IsSpecificBuiltin(ArgType(c, 3), "Uint64")
                 THEN ReportIncorrectCallArg(c, 3)
                 ELSE Accept(c, BT("Nil"))
            ELSE Accept(c, BT("Nil"))))

\* CheckBuiltinOutputAlloc, CheckBuiltinOutputAdvance, CheckBuiltinOutputFinalize.
CheckBuiltinOutputCall(c) ==
    IF ~CheckArgCount(c, 1) THEN ReportMismatchedArgs(c)
    ELSE IF ~IsPointerToSpecificBuiltin(ArgType(c, 0), "ExecutionContext")
    THEN ReportIncorrectCallArg(c, 0)
    ELSE IF c.builtin = "OutputAlloc" THEN Accept(c, PointerTo(BT("Uint8")))
    ELSE Accept(c, BT("Nil"))

CheckBuiltinOutputSetNull(c) ==
    IF ~CheckArgCount(c, 2) THEN ReportMismatchedArgs(c)
    ELSE IF ~IsPointerToSpecificBuiltin(ArgType(c, 0), "ExecutionContext")
    THEN ReportIncorrectCallArg(c, 0)
    ELSE IF ~IsIntegerType(ArgType(c, 1))
    THEN ReportIncorrectCallArg(c, 1)
    ELSE Accept(c, BT("Nil"))

\* CheckArgCount(call, 2), and then call->arguments()[2] is read.
CheckBuiltinIndexIteratorInit(c, junk) ==
    IF ~CheckArgCount(c, 2) THEN ReportMismatchedArgs(c)
    ELSE IF ~IsPointerToSpecificBuiltin(ArgType(c, 0), "IndexIterator")
    THEN ReportIncorrectCallArg(c, 0)
    ELSE IF ~IsStringType(ArgType(c, 1))
    THEN ReportIncorrectCallArg(c, 1)
    ELSE Guarded(c, 2, junk,
        IF ~IsPointerToSpecificBuiltin(ArgTypeOr(c, 2, junk), "ExecutionContext")
        THEN ReportIncorrectCallArg(c, 2)
        ELSE Accept(c, BT("Nil")))

CheckBuiltinIndexIteratorScanKey(c) ==
    IF Len(c.args) # 2 THEN Report(c, "kMismatchedCallArgs")
    ELSE IF ~IsPointerToSpecificBuiltin(ArgType(c, 0), "IndexIterator")
    THEN Report(c, "kBadArgToIndexIteratorScanKey")
    ELSE IF ~IsPointerToSpecificBuiltin(ArgType(c, 1), "Int8")
    THEN Report(c, "kBadArgToIndexIteratorScanKey")
    ELSE Accept(c, BT("Nil"))

\* The intrinsics analysed: those of the contract table, and JoinHashTableBuild.
FilterBuiltins == {"FilterEq", "FilterNe", "FilterLt", "FilterLe", "FilterGt", "FilterGe"}
TableIterBuiltins == {"TableIterInit", "TableIterAdvance", "TableIterGetPCI", "TableIterClose"}
PCIBuiltins == {"PCIIsFiltered", "PCIHasNext", "PCIHasNextFiltered", "PCIAdvance",
                "PCIAdvanceFiltered", "PCIMatch", "PCIReset", "PCIResetFiltered",
                "PCIGetSmallInt", "PCIGetInt", "PCIGetBigInt", "PCIGetReal", "PCIGetDouble"}
SorterSortBuiltins == {"SorterSortParallel", "SorterSortTopKParallel"}
Builtins ==
    {"BoolToSql", "IntToSql", "FloatToSql", "SqlToBool"} \cup FilterBuiltins \cup TableIterBuiltins \cup {"TableIterParallel"}
    \cup PCIBuiltins \cup {"Hash", "FilterManagerInsertFilter"} \cup {"AggHashTableInit", "AggHashTableLookup", "AggHashTableProcessBatch"}
    \cup {"AggInit", "AggAdvance", "AggMerge", "AggReset", "AggResult"}
    \cup {"JoinHashTableInit", "JoinHashTableInsert", "JoinHashTableIterHasNext"}
    \cup {"JoinHashTableBuild", "JoinHashTableBuildParallel"} \cup {"SorterInit"} \cup SorterSortBuiltins
    \cup TrigBuiltins \cup {"ATan2", "SizeOf", "PtrCast"} \cup {"OutputAlloc", "OutputAdvance", "OutputFinalize"}
    \cup {"OutputSetNull", "IndexIteratorInit", "IndexIteratorScanKey"}

\* Mutant of SomeArgumentUnresolved: the result of Resolve is not looked at.
NoArgumentUnresolved(c) == FALSE

\* for (auto *arg : call->arguments()): Resolve(arg) == nullptr for some arg.
SomeArgumentUnresolved(c) == \E i \in 1..Len(c.args) : Resolve(c.args[i]) = Unresolved

\* Sema::CheckBuiltinCall(call).  junk is what the reads of arguments that were
\* not supplied give.
CheckBuiltinCall(c, junk) ==
    IF c.builtin \notin Builtins THEN Report(c, "kInvalidBuiltinFunction")
    ELSE IF c.builtin = "PtrCast" THEN CheckBuiltinPtrCastCall(c)
    ELSE IF SomeArgumentUnresolved(c)
    THEN Outcome(<<ResolveError>>, Unresolved, c.args)
    ELSE CASE c.builtin \in {"BoolToSql", "IntToSql", "FloatToSql", "SqlToBool"} -> CheckBuiltinSqlConversionCall(c)
           [] c.builtin \in FilterBuiltins -> CheckBuiltinFilterCall(c)
           [] c.builtin \in TableIterBuiltins -> CheckBuiltinTableIterCall(c, junk[1])
           [] c.builtin = "TableIterParallel" -> CheckBuiltinTableIterParCall(c)
           [] c.builtin \in PCIBuiltins -> CheckBuiltinPCICall(c)
           [] c.builtin = "Hash" -> CheckBuiltinHashCall(c)
           [] c.builtin = "FilterManagerInsertFilter" -> CheckBuiltinFilterManagerCall(c)
           [] c.builtin \in {"AggHashTableInit", "AggHashTableLookup", "AggHashTableProcessBatch"} -> CheckBuiltinAggHashTableCall(c)
           [] c.builtin \in {"AggInit", "AggAdvance", "AggMerge", "AggReset", "AggResult"} -> CheckBuiltinAggregatorCall(c)
           [] c.builtin = "JoinHashTableInit" -> CheckBuiltinJoinHashTableInit(c)
           [] c.builtin = "JoinHashTableInsert" -> CheckBuiltinJoinHashTableInsert(c)
           [] c.builtin = "JoinHashTableIterHasNext" ->
                 CheckBuiltinJoinHashTableIterHasNext(c)
           [] c.builtin \in {"JoinHashTableBuild", "JoinHashTableBuildParallel"} -> CheckBuiltinJoinHashTableBuild(c)
           [] c.builtin = "SorterInit" -> CheckBuiltinSorterInit(c)
           [] c.builtin \in SorterSortBuiltins -> CheckBuiltinSorterSort(c, junk)
           [] c.builtin = "SizeOf" -> CheckBuiltinSizeOfCall(c)
           [] c.builtin \in {"OutputAlloc", "OutputAdvance", "OutputFinalize"} -> CheckBuiltinOutputCall(c)
           [] c.builtin = "OutputSetNull" -> CheckBuiltinOutputSetNull(c)
           [] c.builtin = "IndexIteratorInit" -> CheckBuiltinIndexIteratorInit(c, junk[1])
           [] c.builtin = "IndexIteratorScanKey" -> CheckBuiltinIndexIteratorScanKey(c)
           [] c.builtin \in TrigBuiltins \cup {"ATan2"} -> CheckMathTrigCall(c)

\* ------------------------------------------- the contract table of intrinsics
\* A row of the table, for intrinsic b.
Contract(b) ==
    LET \* A row: the sets the leading arguments are taken from, the set any further
        \* argument is taken from, how many further arguments there may be, and the
        \* result types the row allows.
        Row(params, extra, extras, result) ==
            [params |-> params, extra |-> extra, extras |-> extras, result |-> result]
        Fixed(params, result) == Row(params, {}, {0}, {result})

        \* The expressions of the given types.
        Of(types) == {e \in ArgExprs : e.type \in types}
        Ptr(kind) == Of({PointerTo(BT(kind))})
        AnyValue == {e \in ArgExprs : e.type # Unresolved}
        AnyPointer == {e \in ArgExprs : IsPointerType(e.type)}
        AnyFunction == {e \in ArgExprs : IsFunctionType(e.type)}
        NativeInts == Of({BT(kd) : kd \in IntegerKinds})
        SqlValues == Of({BT(kd) : kd \in SqlValueKinds})
        Aggregators == Of({PointerTo(BT(kd)) : kd \in AggregatorKinds})
        SqlValuePointers == Of({PointerTo(BT(kd)) : kd \in SqlValueKinds})
        \* function (opaque*, opaque*, *TableVectorIterator) -> ?
        ScanFunctions ==
            Of({FunctionType(<<OpaquePtr, OpaquePtr, PointerTo(BT("TableVectorIterator"))>>, r) :
                   r \in {t \in ArgTypes : t.k = "builtin"}})
        \* function (*?, *?, *?) -> bool
        KeyEqFunctions == Of({FunctionType(<<OpaquePtr, OpaquePtr, OpaquePtr>>, BT("Bool"))})
        \* function (*?, *?) -> Int32
        ComparisonFunctions == Of({FunctionType(<<OpaquePtr, OpaquePtr>>, BT("Int32"))})
        \* function (*PCI) -> Int*
        FilterFunctions ==
            Of({FunctionType(<<PointerTo(BT("ProjectedColumnsIterator"))>>, BT(kd)) :
                   kd \in IntegerKinds})
        \* `*T` for a type T, which the rewrite turns into the pointer type.
        StarTypes == {e \in ArgExprs : e.form = "star" /\ e.repr # Unresolved}
    IN
    CASE b = "BoolToSql" -> Fixed(<<Of({BT("Bool")})>>, BT("Boolean"))
      [] b = "IntToSql" -> Fixed(<<NativeInts>>, BT("Integer"))
      [] b = "FloatToSql" -> Fixed(<<Of({BT("Float32")})>>, BT("Real"))
      [] b = "SqlToBool" -> Fixed(<<Of({BT("Boolean")})>>, BT("Bool"))
      [] b \in FilterBuiltins ->
            Fixed(<<Ptr("ProjectedColumnsIterator"), Of({BT("Int32")}), AnyValue>>, BT("Int32"))
      [] b = "TableIterInit" ->
            Fixed(<<Ptr("TableVectorIterator"), {StringLiteral}, Ptr("ExecutionContext")>>,
                  BT("Nil"))
      [] b = "TableIterAdvance" -> Fixed(<<Ptr("TableVectorIterator")>>, BT("Bool"))
      [] b = "TableIterGetPCI" ->
            Fixed(<<Ptr("TableVectorIterator")>>, PointerTo(BT("ProjectedColumnsIterator")))
      [] b = "TableIterClose" -> Fixed(<<Ptr("TableVectorIterator")>>, BT("Nil"))
      [] b = "TableIterParallel" ->
            Fixed(<<{StringLiteral}, AnyPointer, Ptr("ThreadStateContainer"), ScanFunctions>>,
                  BT("Nil"))
      [] b \in {"PCIGetSmallInt", "PCIGetInt", "PCIGetBigInt"} ->
            Row(<<Ptr("ProjectedColumnsIterator")>>, AnyValue, {0, 1}, {BT("Integer")})
      [] b \in {"PCIGetReal", "PCIGetDouble"} ->
            Row(<<Ptr("ProjectedColumnsIterator")>>, AnyValue, {0, 1}, {BT("Real")})
      [] b \in PCIBuiltins \ {"PCIMatch", "PCIGetSmallInt", "PCIGetInt", "PCIGetBigInt",
                              "PCIGetReal", "PCIGetDouble"} ->
            Row(<<Ptr("ProjectedColumnsIterator")>>, AnyValue, {0, 1}, ArgTypes)
      [] b = "PCIMatch" ->
            Fixed(<<Ptr("ProjectedColumnsIterator"), Of({BT("Bool"), BT("Boolean")})>>,
                  BT("Nil"))
      [] b = "Hash" -> Row(<<SqlValues>>, SqlValues, Nat, {BT("Uint64")})
      [] b = "FilterManagerInsertFilter" ->
            Row(<<Ptr("FilterManager"), FilterFunctions>>, FilterFunctions, Nat, {BT("Nil")})
      [] b = "AggHashTableInit" ->
            Fixed(<<Ptr("AggregationHashTable"), Ptr("MemoryPool"), Of({BT("Uint32")})>>,
                  BT("Nil"))
      [] b = "AggHashTableLookup" ->
            Fixed(<<Ptr("AggregationHashTable"), Of({BT("Uint64")}), AnyFunction, AnyPointer>>,
                  PointerTo(BT("Uint8")))
      [] b = "AggHashTableProcessBatch" ->
            Fixed(<<Ptr("AggregationHashTable"),
                    Of({PointerTo(PointerTo(BT("ProjectedColumnsIterator")))}),
                    AnyFunction, AnyFunction, AnyFunction, AnyFunction, Of({BT("Bool")})>>,
                  BT("Nil"))
      [] b \in {"AggInit", "AggReset"} -> Row(<<Aggregators>>, Aggregators, Nat, {BT("Nil")})
      [] b = "AggAdvance" -> Fixed(<<Aggregators, SqlValuePointers>>, BT("Nil"))
      [] b = "AggMerge" -> Fixed(<<Aggregators, Aggregators>>, BT("Nil"))
      [] b = "AggResult" -> Fixed(<<Aggregators>>, BT("Integer"))
      [] b = "JoinHashTableInit" ->
            Fixed(<<Ptr("JoinHashTable"), Ptr("MemoryPool"), Of({BT("Uint32")})>>, BT("Nil"))
      [] b = "JoinHashTableInsert" ->
            Fixed(<<Ptr("JoinHashTable"), Of({BT("Uint64")})>>, PointerTo(BT("Uint8")))
      [] b = "JoinHashTableBuild" -> Fixed(<<Ptr("JoinHashTable")>>, BT("Nil"))
      [] b = "JoinHashTableBuildParallel" ->
            Fixed(<<Ptr("JoinHashTable"), Ptr("ThreadStateContainer"), Of({BT("Uint32")})>>,
                  BT("Nil"))
      [] b = "JoinHashTableIterHasNext" ->
            Fixed(<<Ptr("JoinHashTableIterator"), KeyEqFunctions, AnyPointer, AnyPointer>>,
                  BT("Bool"))
      [] b = "SorterInit" ->
            Fixed(<<Ptr("Sorter"), Ptr("MemoryPool"), ComparisonFunctions, Of({BT("Uint32")})>>,
                  BT("Nil"))
      [] b = "SorterSortParallel" ->
            Fixed(<<Ptr("Sorter"), Ptr("ThreadStateContainer"), Of({BT("Uint32")})>>, BT("Nil"))
      [] b = "SorterSortTopKParallel" ->
            Fixed(<<Ptr("Sorter"), Ptr("ThreadStateContainer"), Of({BT("Uint32")}),
                    Of({BT("Uint64")})>>, BT("Nil"))
      [] b \in TrigBuiltins -> Fixed(<<Of({BT("Real")})>>, BT("Real"))
      [] b = "ATan2" -> Fixed(<<Of({BT("Real")}), Of({BT("Real")})>>, BT("Real"))
      [] b = "OutputAlloc" -> Fixed(<<Ptr("ExecutionContext")>>, PointerTo(BT("Uint8")))
      [] b \in {"OutputAdvance", "OutputFinalize"} ->
            Fixed(<<Ptr("ExecutionContext")>>, BT("Nil"))
      [] b = "OutputSetNull" -> Fixed(<<Ptr("ExecutionContext"), NativeInts>>, BT("Nil"))
      [] b = "IndexIteratorInit" ->
            Fixed(<<Ptr("IndexIterator"), Of({StringType}),
                    Ptr("ExecutionContext")>>, BT("Nil"))
      [] b = "IndexIteratorScanKey" ->
            Fixed(<<Ptr("IndexIterator"), Ptr("Int8")>>, BT("Nil"))
      [] b = "SizeOf" -> Fixed(<<AnyValue>>, BT("Uint32"))
      [] b = "PtrCast" -> Row(<<StarTypes, AnyPointer>>, {}, {0}, {e.repr : e \in StarTypes})

\* The call satisfies its row: argument count and every argument.
WellTyped(c) ==
    /\ c.builtin \in Builtins
    /\ LET row == Contract(c.builtin)
           n == Len(row.params)
       IN /\ Len(c.args) >= n
          /\ (Len(c.args) - n) \in row.extras
          /\ \A i \in 1..n : c.args[i] \in row.params[i]
          /\ \A i \in (n + 1)..Len(c.args) : c.args[i] \in row.extra

\* ------------------------------------------------------- the calls analysed
\* Canonical(b) is one well-typed call of intrinsic b.  The calls of b analysed
\* are the well-typed one, it with any one argument replaced by any expression,
\* it with trailing arguments left out, and it with any one expression added;
\* and there are calls of a name that is no intrinsic.
Calls ==
    LET Canonical(b) ==
            LET row == Contract(b)
            IN [i \in 1..Len(row.params) |-> CHOOSE e \in row.params[i] : TRUE]
        CallsOf(b) ==
            LET base == Canonical(b)
            IN {[builtin |-> b, args |-> a] :
                   a \in {base}
                         \cup {[base EXCEPT ![i] = e] : i \in 1..Len(base), e \in ArgExprs}
                         \cup {SubSeq(base, 1, k) : k \in 0..(Len(base) - 1)}
                         \cup {Append(base, e) : e \in ArgExprs}}
    IN UNION {CallsOf(b) : b \in Builtins}
           \cup {[builtin |-> "notABuiltin", args |-> a] : a \in {<<>>, <<BadExpr>>}}

\* ------------------------------------------------- helpers (sets, sequences)

\* A row of the base table as the build transaction's scan meets it: its key
\* and whether SqlTable::Select succeeds on its slot for that transaction.
Rows == [key : {"k1", "k2"}, selected : BOOLEAN]
SeqsUpTo(S, n) == UNION {[1..k -> S] : k \in 0..n}
Tables == SeqsUpTo(Rows, MaxRows)

\* --------------------------------------------------- transaction manager
\* begin(): the transaction's start timestamp is the current global time.
StartTs == time

\* oldest_active_start_ts(): the minimum start timestamp among the in-flight
\* transactions; the current time when none is in flight.
OldestTransactionStartTime ==
    IF active = {} THEN time ELSE CHOOSE x \in active : \A y \in active : x <= y

\* ------------------------------------------------------ versioned catalog
\* The version of a pg_index row that a transaction with start timestamp ts
\* reads: the newest one committed at or before ts.
VisibleEntry(chain, ts) ==
    LET seen == {i \in 1..Len(chain) : chain[i].ts <= ts}
        newest == CHOOSE x \in seen : \A y \in seen : y <= x
    IN  IF seen = {} THEN NoEntry ELSE chain[newest].entry

\* Commit of a transaction that wrote `entry` for the row: a new newest version.
Publish(chain, ts, entry) == Append(chain, [ts |-> ts, entry |-> entry])

\* The row a transaction reads: its own uncommitted write when it has one,
\* otherwise the version visible at its start timestamp.
ReadEntry(chain, ts, write) ==
    IF write.write = "none" THEN VisibleEntry(chain, ts) ELSE write.entry

\* IndexHandle::SetEntryColumn(txn, oid, column, value): updates one column of
\* the row the transaction reads; nothing is written when it reads no row.
SetEntryColumn(chain, ts, write, column, value) ==
    LET row == ReadEntry(chain, ts, write)
    IN  IF row.present
        THEN [write |-> "update", entry |-> [row EXCEPT ![column] = value]]
        ELSE write

\* ------------------------------------------------------------------- Init
\* The pg_index row of an index that was built before any of the calls.
OldEntry == [present |-> TRUE, indisready |-> FALSE, indisvalid |-> TRUE,
             indisprimary |-> FALSE, indislive |-> FALSE, indisunique |-> FALSE,
             indexptr |-> OldIndex]

IdleDrop == [pc |-> "idle", table_oid |-> UserTable, txn |-> NoTxn,
             index_entry |-> NoEntry, write |-> FALSE, commit_time |-> NoTime,
             end |-> "none", destroyed |-> FALSE]

\* versions: how many versions of the new index's row were committed when the
\* transaction last looked it up.
IdleWorker == [txn |-> NoTxn, read |-> FALSE, seen |-> NoEntry, versions |-> 0]

\* A Pipeline that no call has touched: the vector is empty and the position is i.
PipelineConstructed(i) ==
    /\ pipeline_ = <<>>
    /\ pipeline_index_ = i
    /\ returned = <<>>

\* No call expression is being analysed.
SemaIdle ==
    /\ call = [builtin |-> "none", args |-> <<>>]
    /\ arguments = <<>>
    /\ call_type = Unresolved
    /\ errors = <<>>
    /\ sema_pc = "idle"
    /\ past_end = FALSE

\* No writer transaction runs and none has written.
IdleWriter == [txn |-> NoTxn, seen |-> NoEntry, slot |-> 0]

\* The components other than `unit` are not in use: no OutputStore and no
\* checker, no NamespaceHandle, no IndexIterator, no plan node, no writer.
UnitsIdle(unit) ==
    /\ IF unit = "checker" THEN TRUE
       ELSE /\ output = <<>>
            /\ curr_count_ = 0
            /\ expected_count_ = 0
            /\ prev_val_ = [is_null |-> TRUE, val |-> 0]
            /\ col_idx_ = 0
            /\ sort_arg = 0
            /\ callbacks = <<>>
            /\ batches = <<>>
            /\ expect_failed = FALSE
            /\ num_verdict = "none"
    /\ IF unit = "namespace" THEN TRUE
       ELSE /\ pg_namespace = <<>>
            /\ ns_log = <<>>
    /\ IF unit = "iterator" THEN TRUE
       ELSE /\ col_oids_ = <<>>
            /\ table_buffer_ = 0
            /\ index_buffer_ = 0
            /\ heap = <<>>
            /\ it_pc = "none"
            /\ asserts_on = FALSE
    /\ IF unit = "plan" THEN TRUE
       ELSE /\ lhs = [type |-> "none"]
            /\ rhs = [type |-> "none"]
            /\ plan_out = [done |-> FALSE]
    /\ IF unit = "writer" THEN TRUE
       ELSE /\ wr = IdleWriter
            /\ written = <<>>

InitIndexManager ==
    /\ time = 1
    /\ active = {}
    /\ catalog = [o \in IndexOids |->
                    IF o = OldIndex THEN <<[ts |-> 0, entry |-> OldEntry]>> ELSE <<>>]
    /\ building = [o \in IndexOids |-> "unset"]
    /\ index_obj = [o \in IndexOids |-> IF o = OldIndex THEN "alive" ELSE "none"]
    /\ index_keys = {}
    /\ destroys = 0
    /\ crashed = FALSE
    /\ wild_delete = FALSE
    /\ c_pc = "idle"
    /\ table_oid = UserTable
    /\ unique_index = FALSE
    /\ key_attrs = KeyAttr
    /\ txn1 = NoTxn
    /\ index_oid = NullPtr
    /\ index = NullPtr
    /\ c_write = NoWrite
    /\ commit_time = NoTime
    /\ build_txn = NoTxn
    /\ sql_table = <<>>
    /\ scan_pos = 0
    /\ success = TRUE
    /\ build_commit_time = NoTime
    /\ txn1_end = "none"
    /\ dr = [d \in Droppers |-> IdleDrop]
    /\ wk = [w \in Workers |-> IdleWorker]

Init ==
    /\ InitIndexManager
    /\ PipelineConstructed(0)
    /\ SemaIdle
    /\ UnitsIdle("none")

\* --------------------------------------------- IndexManager::CreateConcurrently
\* txn1 = txn_mgr->BeginTransaction(), with the call's arguments.
CreateBegin ==
    /\ ~crashed
    /\ c_pc = "idle"
    /\ \E t \in TableOids, u \in BOOLEAN, k \in {KeyAttr, NoSuchAttr} :
         /\ table_oid' = t
         /\ unique_index' = u
         /\ key_attrs' = k
    /\ txn1' = StartTs
    /\ time' = time + 1
    /\ active' = active \cup {StartTs}
    /\ c_pc' = "check_table"
    /\ UNCHANGED elsewhere
    /\ UNCHANGED <<catalog, building, index_obj, index_keys, destroys, crashed, wild_delete,
                   index_oid, index, c_write, commit_time, build_txn, sql_table, scan_pos,
                   success, build_commit_time, txn1_end, dr, wk>>

\* Mutant of CreateCheckTable: the missing-table branch does not return.
CreateCheckTableNoReturn ==
    /\ ~crashed
    /\ c_pc = "check_table"
    /\ c_pc' = "get_index"
    /\ UNCHANGED elsewhere
    /\ UNCHANGED <<shared, table_oid, unique_index, key_attrs, txn1, index_oid, index,
                   c_write, commit_time, build_txn, sql_table, scan_pos, success,
                   build_commit_time, txn1_end, dr, wk>>

\* catalog->GetUserTable(txn1, ...); a missing table aborts txn1 and returns.
CreateCheckTable ==
    /\ ~crashed
    /\ c_pc = "check_table"
    /\ IF table_oid = UserTable
       THEN /\ c_pc' = "get_index"
            /\ UNCHANGED <<active, txn1_end>>
       ELSE /\ active' = active \ {txn1}
            /\ txn1_end' = "aborted"
            /\ c_pc' = "done"
    /\ UNCHANGED elsewhere
    /\ UNCHANGED <<time, catalog, building, index_obj, index_keys, destroys, crashed,
                   wild_delete, table_oid, unique_index, key_attrs, txn1, index_oid, index,
                   c_write, commit_time, build_txn, sql_table, scan_pos, success,
                   build_commit_time, dr, wk>>

\* index_oid(catalog->GetNextOid()); index = GetEmptyIndex(...): nullptr when a
\* key attribute has no catalog entry, and then txn1 aborts and the call returns.
CreateGetEmptyIndex ==
    /\ ~crashed
    /\ c_pc = "get_index"
    /\ index_oid' = NewIndex
    /\ IF key_attrs = KeyAttr
       THEN /\ index' = NewIndex
            /\ index_obj' = [index_obj EXCEPT ![NewIndex] = "alive"]
            /\ c_pc' = "add_entry"
            /\ UNCHANGED <<active, txn1_end>>
       ELSE /\ active' = active \ {txn1}
            /\ txn1_end' = "aborted"
            /\ c_pc' = "done"
            /\ UNCHANGED <<index, index_obj>>
    /\ UNCHANGED elsewhere
    /\ UNCHANGED <<time, catalog, building, index_keys, destroys, crashed, wild_delete,
                   table_oid, unique_index, key_attrs, txn1, c_write, commit_time,
                   build_txn, sql_table, scan_pos, success, build_commit_time, dr, wk>>

\* Mutant of NewIndexEntry: the entry is inserted as already valid and live.
NewIndexEntryValid(ptr, indisunique) ==
    [present |-> TRUE, indisready |-> TRUE, indisvalid |-> TRUE,
     indisprimary |-> FALSE, indislive |-> TRUE, indisunique |-> indisunique,
     indexptr |-> ptr]

\* The placeholder arguments of AddEntry.
NewIndexEntry(ptr, indisunique) ==
    [present |-> TRUE, indisready |-> TRUE, indisvalid |-> FALSE,
     indisprimary |-> FALSE, indislive |-> FALSE, indisunique |-> indisunique,
     indexptr |-> ptr]

\* Mutant of CreateAddEntry: the row is inserted outside txn1, so it is in the
\* catalog as of txn1's start.
CreateAddEntryUnlogged ==
    /\ ~crashed
    /\ c_pc = "add_entry"
    /\ catalog' = [catalog EXCEPT ![index_oid] =
                      Publish(@, txn1, NewIndexEntry(index, unique_index))]
    /\ c_pc' = "set_flag"
    /\ UNCHANGED elsewhere
    /\ UNCHANGED <<time, active, building, index_obj, index_keys, destroys, crashed,
                   wild_delete, table_oid, unique_index, key_attrs, txn1, index_oid, index,
                   c_write, commit_time, build_txn, sql_table, scan_pos, success,
                   build_commit_time, txn1_end, dr, wk>>

\* index_handle.AddEntry(txn1, index, index_oid, ...): an uncommitted insert.
CreateAddEntry ==
    /\ ~crashed
    /\ c_pc = "add_entry"
    /\ c_write' = [write |-> "insert", entry |-> NewIndexEntry(index, unique_index)]
    /\ c_pc' = "set_flag"
    /\ UNCHANGED elsewhere
    /\ UNCHANGED <<shared, table_oid, unique_index, key_attrs, txn1, index_oid, index,
                   commit_time, build_txn, sql_table, scan_pos, success, build_commit_time,
                   txn1_end, dr, wk>>

\* SetIndexBuildingFlag(index_id, false).
CreateInitFlag ==
    /\ ~crashed
    /\ c_pc = "set_flag"
    /\ building' = [building EXCEPT ![index_oid] = "false"]
    /\ c_pc' = "commit1"
    /\ UNCHANGED elsewhere
    /\ UNCHANGED <<time, active, catalog, index_obj, index_keys, destroys, crashed,
                   wild_delete, table_oid, unique_index, key_attrs, txn1, index_oid, index,
                   c_write, commit_time, build_txn, sql_table, scan_pos, success,
                   build_commit_time, txn1_end, dr, wk>>

\* commit_time = txn_mgr->Commit(txn1, nullptr, nullptr).
CreateCommit1 ==
    /\ ~crashed
    /\ c_pc = "commit1"
    /\ commit_time' = time
    /\ time' = time + 1
    /\ active' = active \ {txn1}
    /\ catalog' = IF c_write.write = "none" THEN catalog
                  ELSE [catalog EXCEPT ![index_oid] = Publish(@, time, c_write.entry)]
    /\ c_write' = NoWrite
    /\ txn1_end' = "committed"
    /\ c_pc' = "barrier"
    /\ UNCHANGED elsewhere
    /\ UNCHANGED <<building, index_obj, index_keys, destroys, crashed, wild_delete,
                   table_oid, unique_index, key_attrs, txn1, index_oid, index, build_txn,
                   sql_table, scan_pos, success, build_commit_time, dr, wk>>

\* Mutant of CreateBarrierExit: the wait is skipped.
CreateBarrierExitNoWait(ct) == TRUE

\* Mutant of CreateBarrierExit: the wait lasts until no transaction is in flight.
CreateBarrierExitQuiet(ct) == active = {}

\* The exit condition of `while (txn_mgr->OldestTransactionStartTime() < commit_time)`.
CreateBarrierExit(ct) == ~(OldestTransactionStartTime < ct)

\* The busy-wait ends.
CreateBarrier ==
    /\ ~crashed
    /\ c_pc = "barrier"
    /\ CreateBarrierExit(commit_time)
    /\ c_pc' = "begin_build"
    /\ UNCHANGED elsewhere
    /\ UNCHANGED <<shared, table_oid, unique_index, key_attrs, txn1, index_oid, index,
                   c_write, commit_time, build_txn, sql_table, scan_pos, success,
                   build_commit_time, txn1_end, dr, wk>>

\* The base table as the scan of a transaction that begins now will meet it:
\* the rows writers have added, of which Select gives it the committed ones,
\* followed by the rows t that were there before.
ScanTable(t) ==
    [i \in 1..Len(sql_table) |->
        [key |-> sql_table[i].key,
         selected |-> \E j \in 1..Len(written) :
                          written[j].slot = i /\ written[j].state = "committed"]] \o t

\* Mutant of CreateBeginBuild: the build transaction is begun with the plain
\* BeginTransaction, without the action that raises the building flag.
CreateBeginBuildNoAction ==
    /\ ~crashed
    /\ c_pc = "begin_build"
    /\ build_txn' = StartTs
    /\ time' = time + 1
    /\ active' = active \cup {StartTs}
    /\ \E t \in Tables : sql_table' = ScanTable(t)
    /\ scan_pos' = 1
    /\ success' = TRUE
    /\ c_pc' = "set_ready"
    /\ UNCHANGED elsewhere
    /\ UNCHANGED <<catalog, building, index_obj, index_keys, destroys, crashed,
                   wild_delete, table_oid, unique_index, key_attrs, txn1, index_oid, index,
                   c_write, commit_time, build_commit_time, txn1_end, dr, wk>>

\* build_txn = txn_mgr->BeginTransactionWithAction([&]() {
\* SetIndexBuildingFlag(index_id, true); }): the action runs inside the begin.
\* sql_table is the base table as this transaction's scan will meet it.
CreateBeginBuild ==
    /\ ~crashed
    /\ c_pc = "begin_build"
    /\ build_txn' = StartTs
    /\ time' = time + 1
    /\ active' = active \cup {StartTs}
    /\ building' = [building EXCEPT ![index_oid] = "true"]
    /\ \E t \in Tables : sql_table' = ScanTable(t)
    /\ scan_pos' = 1
    /\ success' = TRUE
    /\ c_pc' = "set_ready"
    /\ UNCHANGED elsewhere
    /\ UNCHANGED <<catalog, index_obj, index_keys, destroys, crashed, wild_delete,
                   table_oid, unique_index, key_attrs, txn1, index_oid, index, c_write,
                   commit_time, build_commit_time, txn1_end, dr, wk>>

\* Mutant of CreateSetReady: indisready is left as AddEntry wrote it.
CreateSetReadyKept ==
    /\ ~crashed
    /\ c_pc = "set_ready"
    /\ c_pc' = "populate"
    /\ UNCHANGED elsewhere
    /\ UNCHANGED <<shared, table_oid, unique_index, key_attrs, txn1, index_oid, index,
                   c_write, commit_time, build_txn, sql_table, scan_pos, success,
                   build_commit_time, txn1_end, dr, wk>>

\* index_handle.SetEntryColumn(build_txn, index_oid, "indisready", false).
CreateSetReady ==
    /\ ~crashed
    /\ c_pc = "set_ready"
    /\ c_write' = SetEntryColumn(catalog[index_oid], build_txn, c_write, "indisready", FALSE)
    /\ c_pc' = "populate"
    /\ UNCHANGED elsewhere
    /\ UNCHANGED <<shared, table_oid, unique_index, key_attrs, txn1, index_oid, index,
                   commit_time, build_txn, sql_table, scan_pos, success, build_commit_time,
                   txn1_end, dr, wk>>

\* ------------------------------------------------ IndexManager::PopulateIndex
\* Index::InsertUnique(txn, key, slot): fails when the key is already indexed.
InsertUnique(keys, key, slot) == \A p \in keys : p[1] # key

\* Index::Insert(txn, key, slot): fails when this key-slot pair is already indexed.
Insert(keys, key, slot) == <<key, slot>> \notin keys

\* Mutant of InsertionSucceeds: the result of the insertion is not looked at.
InsertionUnchecked(keys, key, slot, unique) == TRUE

\* The insertion the loop body makes for a selected tuple, and its result.
InsertionSucceeds(keys, key, slot, unique) ==
    IF unique THEN InsertUnique(keys, key, slot) ELSE Insert(keys, key, slot)

\* Mutant of CreatePopulateStep: a failed insertion clears success but the loop
\* has no `break`, it goes on to the next tuple.
CreatePopulateStepNoBreak ==
    /\ ~crashed
    /\ c_pc = "populate"
    /\ scan_pos <= Len(sql_table)
    /\ LET it == scan_pos
           row == sql_table[it]
       IN  IF row.selected
           THEN IF InsertionSucceeds(index_keys, row.key, it, unique_index)
                THEN /\ index_keys' = index_keys \cup {<<row.key, it>>}
                     /\ UNCHANGED success
                ELSE /\ success' = FALSE
                     /\ UNCHANGED index_keys
           ELSE UNCHANGED <<index_keys, success>>
    /\ scan_pos' = scan_pos + 1
    /\ UNCHANGED elsewhere
    /\ UNCHANGED <<time, active, catalog, building, index_obj, destroys, crashed,
                   wild_delete, c_pc, table_oid, unique_index, key_attrs, txn1, index_oid,
                   index, c_write, commit_time, build_txn, sql_table, build_commit_time,
                   txn1_end, dr, wk>>

\* One iteration of `for (const auto &it : sql_table)` in PopulateIndex, called
\* for the value of "indisvalid": the tuple at scan_pos is selected and its key
\* inserted; a failed insertion clears success and leaves the loop.
CreatePopulateStep ==
    /\ ~crashed
    /\ c_pc = "populate"
    /\ success
    /\ scan_pos <= Len(sql_table)
    /\ LET it == scan_pos
           row == sql_table[it]
       IN  IF row.selected
           THEN IF InsertionSucceeds(index_keys, row.key, it, unique_index)
                THEN /\ index_keys' = index_keys \cup {<<row.key, it>>}
                     /\ scan_pos' = scan_pos + 1
                     /\ UNCHANGED success
                ELSE /\ success' = FALSE
                     /\ UNCHANGED <<index_keys, scan_pos>>
           ELSE /\ scan_pos' = scan_pos + 1
                /\ UNCHANGED <<index_keys, success>>
    /\ UNCHANGED elsewhere
    /\ UNCHANGED <<time, active, catalog, building, index_obj, destroys, crashed,
                   wild_delete, c_pc, table_oid, unique_index, key_attrs, txn1, index_oid,
                   index, c_write, commit_time, build_txn, sql_table, build_commit_time,
                   txn1_end, dr, wk>>

\* Mutant of CreateSetValid: indisvalid is updated outside build_txn, so the new
\* value is in the catalog as of build_txn's start.
CreateSetValidUnlogged ==
    /\ ~crashed
    /\ c_pc = "populate"
    /\ ~success \/ scan_pos > Len(sql_table)
    /\ catalog' = [catalog EXCEPT ![index_oid] =
                      Publish(@, build_txn,
                              [ReadEntry(@, build_txn, c_write) EXCEPT !.indisvalid = success])]
    /\ c_write' = NoWrite
    /\ c_pc' = "commit2"
    /\ UNCHANGED elsewhere
    /\ UNCHANGED <<time, active, building, index_obj, index_keys, destroys, crashed,
                   wild_delete, table_oid, unique_index, key_attrs, txn1, index_oid, index,
                   commit_time, build_txn, sql_table, scan_pos, success, build_commit_time,
                   txn1_end, dr, wk>>

\* PopulateIndex returns success;
\* index_handle.SetEntryColumn(build_txn, index_oid, "indisvalid", <that result>).
CreateSetValid ==
    /\ ~crashed
    /\ c_pc = "populate"
    /\ ~success \/ scan_pos > Len(sql_table)
    /\ c_write' = SetEntryColumn(catalog[index_oid], build_txn, c_write, "indisvalid", success)
    /\ c_pc' = "commit2"
    /\ UNCHANGED elsewhere
    /\ UNCHANGED <<shared, table_oid, unique_index, key_attrs, txn1, index_oid, index,
                   commit_time, build_txn, sql_table, scan_pos, success, build_commit_time,
                   txn1_end, dr, wk>>

\* txn_mgr->Commit(build_txn, nullptr, nullptr): no callback is passed.
CreateCommit2 ==
    /\ ~crashed
    /\ c_pc = "commit2"
    /\ build_commit_time' = time
    /\ time' = time + 1
    /\ active' = active \ {build_txn}
    /\ catalog' = IF c_write.write = "none" THEN catalog
                  ELSE [catalog EXCEPT ![index_oid] = Publish(@, time, c_write.entry)]
    /\ c_write' = NoWrite
    /\ c_pc' = "done"
    /\ UNCHANGED elsewhere
    /\ UNCHANGED <<building, index_obj, index_keys, destroys, crashed, wild_delete,
                   table_oid, unique_index, key_attrs, txn1, index_oid, index, commit_time,
                   build_txn, sql_table, scan_pos, success, txn1_end, dr, wk>>

\* ------------------------------------------------------- IndexManager::Drop
\* txn = txn_mgr->BeginTransaction(), with the call's table_oid argument; the
\* index_oid argument is OldIndex.
DropBegin(d) ==
    /\ ~crashed
    /\ dr[d].pc = "idle"
    /\ \E t \in TableOids :
         dr' = [dr EXCEPT ![d].table_oid = t, ![d].txn = StartTs, ![d].pc = "check_table"]
    /\ time' = time + 1
    /\ active' = active \cup {StartTs}
    /\ UNCHANGED elsewhere
    /\ UNCHANGED <<catalog, building, index_obj, index_keys, destroys, crashed, wild_delete,
                   c_locals, wk>>

\* catalog->GetUserTable(txn, ...); a missing table aborts txn and returns.
DropCheckTable(d) ==
    /\ ~crashed
    /\ dr[d].pc = "check_table"
    /\ IF dr[d].table_oid = UserTable
       THEN /\ dr' = [dr EXCEPT ![d].pc = "get_entry"]
            /\ UNCHANGED active
       ELSE /\ active' = active \ {dr[d].txn}
            /\ dr' = [dr EXCEPT ![d].end = "aborted", ![d].pc = "done"]
    /\ UNCHANGED elsewhere
    /\ UNCHANGED <<time, catalog, building, index_obj, index_keys, destroys, crashed,
                   wild_delete, c_locals, wk>>

\* index_entry = index_handle.GetIndexEntry(txn, index_oid): null when the
\* transaction sees no row for index_oid.
DropGetIndexEntry(d) ==
    /\ ~crashed
    /\ dr[d].pc = "get_entry"
    /\ dr' = [dr EXCEPT ![d].index_entry = VisibleEntry(catalog[OldIndex], dr[d].txn),
                        ![d].pc = "delete_entry"]
    /\ UNCHANGED elsewhere
    /\ UNCHANGED <<shared, c_locals, wk>>

\* A delete by the transaction started at ts conflicts with a version committed
\* after ts and with another transaction's uncommitted delete of the row.
WriteConflict(d) ==
    \/ \E i \in 1..Len(catalog[OldIndex]) : catalog[OldIndex][i].ts > dr[d].txn
    \/ \E e \in Droppers \ {d} : dr[e].write /\ dr[e].end = "none"

\* index_handle.DeleteEntry(txn, index_entry): an uncommitted delete of the row;
\* nothing is deleted on a write-write conflict.  With a null index_entry the
\* call either does nothing or dereferences it.
DropDeleteEntry(d) ==
    /\ ~crashed
    /\ dr[d].pc = "delete_entry"
    /\ IF dr[d].index_entry.present
       THEN /\ dr' = [dr EXCEPT ![d].write = ~WriteConflict(d), ![d].pc = "commit"]
            /\ UNCHANGED crashed
       ELSE \/ /\ dr' = [dr EXCEPT ![d].pc = "commit"]
               /\ UNCHANGED crashed
            \/ /\ crashed' = TRUE
               /\ UNCHANGED dr
    /\ UNCHANGED elsewhere
    /\ UNCHANGED <<time, active, catalog, building, index_obj, index_keys, destroys,
                   wild_delete, c_locals, wk>>

\* commit_time = txn_mgr->Commit(txn, nullptr, nullptr).
DropCommit(d) ==
    /\ ~crashed
    /\ dr[d].pc = "commit"
    /\ dr' = [dr EXCEPT ![d].commit_time = time, ![d].end = "committed",
                        ![d].pc = "barrier"]
    /\ time' = time + 1
    /\ active' = active \ {dr[d].txn}
    /\ catalog' = IF dr[d].write
                  THEN [catalog EXCEPT ![OldIndex] = Publish(@, time, NoEntry)]
                  ELSE catalog
    /\ UNCHANGED elsewhere
    /\ UNCHANGED <<building, index_obj, index_keys, destroys, crashed, wild_delete,
                   c_locals, wk>>

\* Mutant of DropBarrierExit: the wait is skipped.
DropBarrierExitNoWait(ct) == TRUE

\* The exit condition of `while (txn_mgr->OldestTransactionStartTime() < commit_time)`.
DropBarrierExit(ct) == ~(OldestTransactionStartTime < ct)

\* The busy-wait ends.
DropBarrier(d) ==
    /\ ~crashed
    /\ dr[d].pc = "barrier"
    /\ DropBarrierExit(dr[d].commit_time)
    /\ dr' = [dr EXCEPT ![d].pc = "destroy"]
    /\ UNCHANGED elsewhere
    /\ UNCHANGED <<shared, c_locals, wk>>

\* index = index_entry->GetBigIntColumn("indexptr"); delete index.  Through a
\* null index_entry the read faults or yields a stray pointer that is deleted;
\* deleting a container a second time corrupts the heap or faults.
DropDestroy(d) ==
    /\ ~crashed
    /\ dr[d].pc = "destroy"
    /\ IF dr[d].index_entry.present
       THEN LET ptr == dr[d].index_entry.indexptr
            IN  /\ destroys' = destroys + 1
                /\ index_obj' = [index_obj EXCEPT ![ptr] = "destroyed"]
                /\ dr' = [dr EXCEPT ![d].destroyed = TRUE, ![d].pc = "done"]
                /\ IF index_obj[ptr] = "destroyed"
                   THEN crashed' \in BOOLEAN
                   ELSE UNCHANGED crashed
                /\ UNCHANGED wild_delete
       ELSE \/ /\ crashed' = TRUE
               /\ UNCHANGED <<dr, wild_delete, destroys, index_obj>>
            \/ /\ wild_delete' = TRUE
               /\ dr' = [dr EXCEPT ![d].pc = "done"]
               /\ UNCHANGED <<crashed, destroys, index_obj>>
    /\ UNCHANGED elsewhere
    /\ UNCHANGED <<time, active, catalog, building, index_keys, c_locals, wk>>

\* ------------------------------------------------- concurrent transactions
\* A reader transaction begins.
WorkerBegin(w) ==
    /\ ~crashed
    /\ wk[w].txn = NoTxn
    /\ time < MaxTime
    /\ wk' = [wk EXCEPT ![w] = [IdleWorker EXCEPT !.txn = StartTs]]
    /\ time' = time + 1
    /\ active' = active \cup {StartTs}
    /\ UNCHANGED elsewhere
    /\ UNCHANGED <<catalog, building, index_obj, index_keys, destroys, crashed, wild_delete,
                   c_locals, dr>>

\* The transaction looks the new index up in the catalog.
WorkerRead(w) ==
    /\ ~crashed
    /\ wk[w].txn # NoTxn
    /\ wk' = [wk EXCEPT ![w].read = TRUE,
                        ![w].seen = VisibleEntry(catalog[NewIndex], wk[w].txn),
                        ![w].versions = Len(catalog[NewIndex])]
    /\ UNCHANGED elsewhere
    /\ UNCHANGED <<shared, c_locals, dr>>

\* The transaction commits (taking a commit timestamp) ...
WorkerCommit(w) ==
    /\ ~crashed
    /\ wk[w].txn # NoTxn
    /\ wk' = [wk EXCEPT ![w] = IdleWorker]
    /\ time' = time + 1
    /\ active' = active \ {wk[w].txn}
    /\ UNCHANGED elsewhere
    /\ UNCHANGED <<catalog, building, index_obj, index_keys, destroys, crashed, wild_delete,
                   c_locals, dr>>

\* ... or aborts.
WorkerAbort(w) ==
    /\ ~crashed
    /\ wk[w].txn # NoTxn
    /\ wk' = [wk EXCEPT ![w] = IdleWorker]
    /\ active' = active \ {wk[w].txn}
    /\ UNCHANGED elsewhere
    /\ UNCHANGED <<time, catalog, building, index_obj, index_keys, destroys, crashed,
                   wild_delete, c_locals, dr>>

\* ------------------------------------------------------ concurrent writers
\* A transaction that will write to the base table begins.
WriterBegin ==
    /\ ~crashed
    /\ wr.txn = NoTxn
    /\ time < MaxTime
    /\ Len(written) < MaxWrites
    /\ wr' = [IdleWriter EXCEPT !.txn = StartTs]
    /\ time' = time + 1
    /\ active' = active \cup {StartTs}
    /\ UNCHANGED written
    /\ UNCHANGED <<pipe_vars, sema_vars, unit_vars>>
    /\ UNCHANGED <<catalog, building, index_obj, index_keys, destroys, crashed, wild_delete,
                   c_locals, dr, wk>>

\* The transaction inserts a row with the given key into the base table, in a
\* new slot that no other transaction sees yet, and consults indisready of the
\* index's entry, as it sees it, to decide whether to insert the key.
WriterWrite(key) ==
    /\ ~crashed
    /\ wr.txn # NoTxn
    /\ wr.slot = 0
    /\ LET seen == VisibleEntry(catalog[NewIndex], wr.txn)
           slot == Len(sql_table) + 1
       IN /\ wr' = [wr EXCEPT !.seen = seen, !.slot = slot]
          /\ sql_table' = Append(sql_table, [key |-> key, selected |-> FALSE])
          /\ written' = Append(written, [slot |-> slot, state |-> "pending"])
          /\ index_keys' = IF seen.present /\ seen.indisready
                           THEN index_keys \cup {<<key, slot>>} ELSE index_keys
    /\ UNCHANGED <<pipe_vars, sema_vars, unit_vars>>
    /\ UNCHANGED <<time, active, catalog, building, index_obj, destroys, crashed,
                   wild_delete, c_pc, table_oid, unique_index, key_attrs, txn1, index_oid,
                   index, c_write, commit_time, build_txn, scan_pos, success,
                   build_commit_time, txn1_end, dr, wk>>

\* The writing transaction commits, which makes its row a committed one, or
\* aborts, which takes its row and key back.
WriterEnd(end) ==
    /\ ~crashed
    /\ wr.txn # NoTxn
    /\ wr' = IdleWriter
    /\ active' = active \ {wr.txn}
    /\ time' = IF end = "committed" THEN time + 1 ELSE time
    /\ written' = [j \in 1..Len(written) |->
                      IF written[j].slot = wr.slot THEN [written[j] EXCEPT !.state = end]
                      ELSE written[j]]
    /\ index_keys' = IF end = "aborted" THEN {p \in index_keys : p[2] # wr.slot}
                     ELSE index_keys
    /\ UNCHANGED <<pipe_vars, sema_vars, unit_vars>>
    /\ UNCHANGED <<catalog, building, index_obj, destroys, crashed, wild_delete, c_locals,
                   dr, wk>>

\* -------------------------------------------------------- specifications
CreateNext ==
    \/ CreateBegin
    \/ CreateCheckTable
    \/ CreateGetEmptyIndex
    \/ CreateAddEntry
    \/ CreateInitFlag
    \/ CreateCommit1
    \/ CreateBarrier
    \/ CreateBeginBuild
    \/ CreateSetReady
    \/ CreatePopulateStep
    \/ CreateSetValid
    \/ CreateCommit2

WorkerNext ==
    \/ \E w \in Workers : WorkerBegin(w)
    \/ \E w \in Workers : WorkerRead(w)
    \/ \E w \in Workers : WorkerCommit(w)
    \/ \E w \in Workers : WorkerAbort(w)

\* One CreateConcurrently call and one Drop call run concurrently.
Spec ==
    Init /\ [][
    \/ CreateNext
    \/ DropBegin("d1")
    \/ DropCheckTable("d1")
    \/ DropGetIndexEntry("d1")
    \/ DropDeleteEntry("d1")
    \/ DropCommit("d1")
    \/ DropBarrier("d1")
    \/ DropDestroy("d1")
    ]_vars

\* One CreateConcurrently call among concurrent reader transactions.
SpecCreate == Init /\ [][CreateNext \/ WorkerNext]_vars

\* The same, with the thread of the CreateConcurrently call always running: a
\* step of the call that stays possible is taken.  Nothing makes the other
\* transactions end.
SpecCreateLive == Init /\ [][CreateNext \/ WorkerNext]_vars /\ WF_vars(CreateNext)

\* Two Drop calls on the same index among concurrent reader transactions.
SpecDrop ==
    Init /\ [][
    \/ \E d \in Droppers : DropBegin(d)
    \/ \E d \in Droppers : DropCheckTable(d)
    \/ \E d \in Droppers : DropGetIndexEntry(d)
    \/ \E d \in Droppers : DropDeleteEntry(d)
    \/ \E d \in Droppers : DropCommit(d)
    \/ \E d \in Droppers : DropBarrier(d)
    \/ \E d \in Droppers : DropDestroy(d)
    \/ WorkerNext
    ]_vars

\* One CreateConcurrently call among transactions that write to the table.
SpecWrite ==
    Init /\ [][
    \/ CreateNext
    \/ WriterBegin
    \/ \E key \in {"k1", "k2"} : WriterWrite(key)
    \/ \E end \in {"committed", "aborted"} : WriterEnd(end)
    ]_vars

\* ------------------------------------------------------- compiler::Pipeline
\* Pipeline::Add(translator, parallelism): pipeline_.push_back(translator).
\* The log of NextStep results starts afresh.
Add(translator) ==
    /\ Len(pipeline_) < MaxPipeline
    /\ pipeline_' = Append(pipeline_, translator)
    /\ returned' = <<>>
    /\ UNCHANGED pipeline_index_
    /\ UNCHANGED <<index_vars, sema_vars, unit_vars, writer_vars>>

\* Pipeline::NextStep(): if (pipeline_index_ > 0) return
\* pipeline_[--pipeline_index_]; else return nullptr.  PipelineAt(i) is
\* pipeline_[i] for the 0-based i of the code; a position outside the vector
\* reads memory the vector does not own, which may hold a translator, null or
\* a pointer to nothing.
NextStep ==
    /\ Len(returned) < MaxNextSteps
    /\ IF pipeline_index_ > 0
       THEN /\ pipeline_index_' = pipeline_index_ - 1
            /\ LET PipelineAt(i) == IF i < Len(pipeline_) THEN {pipeline_[i + 1]}
                                    ELSE Translators \cup {NullPtr, "wild"}
               IN \E r \in PipelineAt(pipeline_index_ - 1) : returned' = Append(returned, r)
       ELSE /\ returned' = Append(returned, NullPtr)
            /\ UNCHANGED pipeline_index_
    /\ UNCHANGED pipeline_
    /\ UNCHANGED <<index_vars, sema_vars, unit_vars, writer_vars>>

\* A Pipeline as its constructor leaves it; no statement under src/ assigns
\* pipeline_index_, so every start value up to MaxPipeline is considered.
InitPipeline ==
    /\ InitIndexManager
    /\ \E i \in 0..MaxPipeline : PipelineConstructed(i)
    /\ SemaIdle
    /\ UnitsIdle("none")

SpecPipeline ==
    InitPipeline /\ [][(\E translator \in Translators : Add(translator)) \/ NextStep]_vars

\* ------------------------------------------------------------ sema::Sema
\* What a read behind the argument vector may give: any expression's type, or
\* no expression at all.
\* Only the checks that read an argument before any arity check meet it.
JunkFor(c) ==
    IF c.builtin \in TableIterBuiltins \cup SorterSortBuiltins \cup {"IndexIteratorInit"}
    THEN (ArgTypes \cup {Unresolved}) \X (ArgTypes \cup {Unresolved})
    ELSE {<<Unresolved, Unresolved>>}

\* The analyser meets the parsed call and runs Sema::CheckBuiltinCall on it.
CheckCall ==
    /\ sema_pc = "parsed"
    /\ \E junk \in JunkFor(call) :
          LET o == CheckBuiltinCall(call, junk)
          IN /\ arguments' = o.args
             /\ call_type' = o.type
             /\ errors' = errors \o o.errors
             /\ past_end' = o.past_end
             /\ sema_pc' = IF o.fault THEN "fault" ELSE "checked"
    /\ UNCHANGED call
    /\ UNCHANGED <<index_vars, pipe_vars, unit_vars, writer_vars>>

InitSema ==
    /\ InitIndexManager
    /\ PipelineConstructed(0)
    /\ UnitsIdle("none")
    /\ call \in Calls
    /\ arguments = call.args
    /\ call_type = Unresolved
    /\ errors = <<>>
    /\ sema_pc = "parsed"
    /\ past_end = FALSE

SpecSema == InitSema /\ [][CheckCall]_vars

\* PopulateIndex alone: the state in which CreateConcurrently calls it when no
\* other transaction runs (txn1 began at 1 and committed at 2, build_txn began
\* at 3 and has written indisready), over every base table of up to MaxScanRows
\* tuples and both values of unique_index.

InitPopulate ==
    /\ time = 4
    /\ active = {3}
    /\ unique_index \in BOOLEAN
    /\ catalog = [o \in IndexOids |->
                    IF o = OldIndex THEN <<[ts |-> 0, entry |-> OldEntry]>>
                    ELSE <<[ts |-> 2, entry |-> NewIndexEntry(NewIndex, unique_index)]>>]
    /\ building = [o \in IndexOids |-> IF o = OldIndex THEN "unset" ELSE "true"]
    /\ index_obj = [o \in IndexOids |-> "alive"]
    /\ index_keys = {}
    /\ destroys = 0
    /\ crashed = FALSE
    /\ wild_delete = FALSE
    /\ c_pc = "populate"
    /\ table_oid = UserTable
    /\ key_attrs = KeyAttr
    /\ txn1 = 1
    /\ index_oid = NewIndex
    /\ index = NewIndex
    /\ c_write = SetEntryColumn(catalog[NewIndex], 3, NoWrite, "indisready", FALSE)
    /\ commit_time = 2
    /\ build_txn = 3
    /\ sql_table \in SeqsUpTo(Rows, MaxScanRows)
    /\ scan_pos = 1
    /\ success = TRUE
    /\ build_commit_time = NoTime
    /\ txn1_end = "committed"
    /\ dr = [d \in Droppers |-> IdleDrop]
    /\ wk = [w \in Workers |-> IdleWorker]
    /\ PipelineConstructed(0)
    /\ SemaIdle
    /\ UnitsIdle("none")

SpecPopulate ==
    InitPopulate /\ [][CreatePopulateStep \/ CreateSetValid \/ CreateCommit2]_vars

\* ---------------------------------------- compiler::OutputStore and checkers
\* The batches of one callback: up to n tuples of two INTEGER columns, each an
\* sql::Integer {is_null, val}; a null carries a val that no check may read,
\* and only column 0 holds nulls.
OutputBatches(n) ==
    LET NotNull == {[is_null |-> FALSE, val |-> v] : v \in 0..1}
    IN SeqsUpTo(({[is_null |-> TRUE, val |-> 1]} \cup NotNull) \X NotNull, n)

\* Mutant of SortExpect: the comparison is strict.
SortExpectStrict(prev, int_val) ==
    IF int_val.is_null
    THEN prev.is_null
    ELSE prev.is_null \/ int_val.val > prev.val

\* The EXPECT_TRUE of one iteration of SingleIntSortChecker::ProcessBatch, for
\* the value int_val when prev_val_ is prev.
SortExpect(prev, int_val) ==
    IF int_val.is_null
    THEN prev.is_null
    ELSE prev.is_null \/ int_val.val >= prev.val

\* Mutant of OutputStoreCall: output is not cleared after the batch is handed on.
OutputStoreCallNoClear(tuples) ==
    /\ num_verdict = "none"
    /\ Len(callbacks) < MaxCallbacks
    /\ curr_count_ + Len(tuples) <= MaxOutRows
    /\ LET out == output \o tuples
           vals(i) == out[i][col_idx_ + 1]
           prev(i) == IF i = 1 THEN prev_val_ ELSE vals(i - 1)
       IN /\ curr_count_' = curr_count_ + Len(out)
          /\ expect_failed' =
                (expect_failed \/ \E i \in 1..Len(out) : ~SortExpect(prev(i), vals(i)))
          /\ prev_val_' = IF out = <<>> THEN prev_val_ ELSE vals(Len(out))
          /\ batches' = Append(batches, out)
          /\ output' = out
    /\ callbacks' = Append(callbacks, Len(tuples))
    /\ UNCHANGED <<expected_count_, col_idx_, sort_arg, num_verdict>>
    /\ UNCHANGED <<index_vars, pipe_vars, sema_vars, ns_vars, iter_vars, plan_vars,
                   writer_vars>>

\* OutputStore::operator()(tuples, num_tuples, tuple_size): every tuple is
\* appended to output as its vector of values, output is handed to
\* checker_->ProcessBatch and then cleared.  checker_ is a MultiChecker of a
\* NumChecker, which adds output.size() to curr_count_, and a
\* SingleIntSortChecker, which runs its EXPECT_TRUE on vals[col_idx_] of every
\* tuple against prev_val_ and then copies the value to prev_val_.
OutputStoreCall(tuples) ==
    /\ num_verdict = "none"
    /\ Len(callbacks) < MaxCallbacks
    /\ curr_count_ + Len(tuples) <= MaxOutRows
    /\ LET out == output \o tuples
           vals(i) == out[i][col_idx_ + 1]
           prev(i) == IF i = 1 THEN prev_val_ ELSE vals(i - 1)
       IN /\ curr_count_' = curr_count_ + Len(out)
          /\ expect_failed' =
                (expect_failed \/ \E i \in 1..Len(out) : ~SortExpect(prev(i), vals(i)))
          /\ prev_val_' = IF out = <<>> THEN prev_val_ ELSE vals(Len(out))
          /\ batches' = Append(batches, out)
          /\ output' = <<>>
    /\ callbacks' = Append(callbacks, Len(tuples))
    /\ UNCHANGED <<expected_count_, col_idx_, sort_arg, num_verdict>>
    /\ UNCHANGED <<index_vars, pipe_vars, sema_vars, ns_vars, iter_vars, plan_vars,
                   writer_vars>>

\* MultiChecker::CheckCorrectness at the end of the query: NumChecker's
\* EXPECT_EQ(curr_count_, expected_count_); SingleIntSortChecker's does nothing.
CheckCorrectness ==
    /\ num_verdict = "none"
    /\ num_verdict' = IF curr_count_ = expected_count_ THEN "pass" ELSE "fail"
    /\ UNCHANGED <<output, curr_count_, expected_count_, prev_val_, col_idx_, sort_arg,
                   callbacks, batches, expect_failed>>
    /\ UNCHANGED <<index_vars, pipe_vars, sema_vars, ns_vars, iter_vars, plan_vars,
                   writer_vars>>

\* The constructors: NumChecker(expected_count), curr_count_{0};
\* SingleIntSortChecker(col_idx) : col_idx_{0}, prev_val_{true, 0};
\* OutputStore(checker, schema) with an empty output.
InitChecker ==
    /\ InitIndexManager
    /\ PipelineConstructed(0)
    /\ SemaIdle
    /\ UnitsIdle("checker")
    /\ output = <<>>
    /\ curr_count_ = 0
    /\ expected_count_ \in 1..2
    /\ prev_val_ = [is_null |-> TRUE, val |-> 0]
    /\ sort_arg \in 0..1
    /\ col_idx_ = 0
    /\ callbacks = <<>>
    /\ batches = <<>>
    /\ expect_failed = FALSE
    /\ num_verdict = "none"

SpecChecker ==
    InitChecker /\ [][(\E tuples \in OutputBatches(MaxOutRows) : OutputStoreCall(tuples))
                      \/ CheckCorrectness]_vars

\* ------------------------------------------------- catalog::NamespaceHandle
\* pg_namespace_hrw_->FindRow(txn, col, value): the first row the transaction
\* sees whose column col holds value, as its position in the table; 0 for null.
\* Column 0 is the oid as an integer, column 1 the name.
FindRow(col, value) ==
    LET hits == {i \in 1..Len(pg_namespace) : pg_namespace[i][col + 1] = value}
    IN IF hits = {} THEN 0 ELSE CHOOSE i \in hits : \A j \in hits : i <= j

\* GetNamespaceEntry(txn, oid): FindRow on column 0 with !oid, the integer of
\* the typed oid; nullptr without a row, else a NamespaceEntry of oid and row.
GetNamespaceEntry(oid) ==
    LET p_row == FindRow(0, oid.ns_oid)
    IN IF p_row = 0 THEN [null |-> TRUE]
       ELSE [null |-> FALSE, oid |-> oid, row |-> p_row]

\* Mutant of GetNamespaceEntryByName: the oid is not read from the row found.
GetNamespaceEntryByNameFirstOid(name) ==
    LET p_row == FindRow(1, name)
    IN IF p_row = 0 THEN [null |-> TRUE]
       ELSE [null |-> FALSE, oid |-> [ns_oid |-> pg_namespace[1][1]], row |-> p_row]

\* GetNamespaceEntry(txn, name): FindRow on column 1 with the name; nullptr
\* without a row, else a NamespaceEntry of the row and of the namespace_oid_t
\* made from GetIntColInRow(0, p_row).
GetNamespaceEntryByName(name) ==
    LET p_row == FindRow(1, name)
    IN IF p_row = 0 THEN [null |-> TRUE]
       ELSE [null |-> FALSE, oid |-> [ns_oid |-> pg_namespace[p_row][1]], row |-> p_row]

\* One call of GetNamespaceEntry in the transaction; the overload is chosen by
\* the type of the key, a namespace_oid_t or a std::string.
NamespaceCall(key) ==
    /\ Len(ns_log) < MaxLookups
    /\ ns_log' = Append(ns_log,
                        [key |-> key,
                         entry |-> IF key.by = "oid" THEN GetNamespaceEntry(key.oid)
                                   ELSE GetNamespaceEntryByName(key.name)])
    /\ UNCHANGED pg_namespace
    /\ UNCHANGED <<index_vars, pipe_vars, sema_vars, output, curr_count_, expected_count_,
                   prev_val_, col_idx_, sort_arg, callbacks, batches, expect_failed,
                   num_verdict, iter_vars, plan_vars, writer_vars>>

\* pg_namespace as the transaction sees it: rows of distinct oids; a name may
\* occur in more than one row.
InitNamespace ==
    /\ InitIndexManager
    /\ PipelineConstructed(0)
    /\ SemaIdle
    /\ UnitsIdle("namespace")
    /\ pg_namespace \in {t \in SeqsUpTo((1..MaxNamespaces) \X {"public", "other"},
                                        MaxNamespaces) :
                            \A i, j \in 1..Len(t) : t[i][1] = t[j][1] => i = j}
    /\ ns_log = <<>>

SpecNamespace ==
    InitNamespace
        /\ [][\E key \in {[by |-> "oid", oid |-> [ns_oid |-> n]] : n \in 1..MaxNamespaces}
                  \cup {[by |-> "name", name |-> s] : s \in {"public", "other", "none"}} :
                NamespaceCall(key)]_vars

\* ------------------------------------------------------- sql::IndexIterator
\* heap holds one record per buffer that AllocateAligned has returned, with the
\* number of times it was freed; a buffer pointer is a position in heap, 0 for
\* nullptr.
\* The column-oid list grows by one oid.
IndexIteratorAddCol(col_oid) ==
    /\ it_pc = "live"
    /\ Len(col_oids_) < MaxColOids
    /\ col_oids_' = Append(col_oids_, col_oid)
    /\ UNCHANGED <<table_buffer_, index_buffer_, heap, it_pc, asserts_on>>
    /\ UNCHANGED <<index_vars, pipe_vars, sema_vars, output, curr_count_, expected_count_,
                   prev_val_, col_idx_, sort_arg, callbacks, batches, expect_failed,
                   num_verdict, ns_vars, plan_vars, writer_vars>>

\* IndexIterator::Init(): TERRIER_ASSERT(!col_oids_.empty()), which ends the
\* program in a build with assertions and is nothing in one without; then
\* table_buffer_ and index_buffer_ are each assigned a new aligned buffer.
IndexIteratorInit ==
    /\ it_pc = "live"
    /\ Len(heap) + 2 <= 2 * MaxInits
    /\ IF asserts_on /\ col_oids_ = <<>>
       THEN /\ it_pc' = "aborted"
            /\ UNCHANGED <<table_buffer_, index_buffer_, heap>>
       ELSE /\ heap' = heap \o <<[of |-> "table", cols |-> Len(col_oids_), freed |-> 0],
                                 [of |-> "index", cols |-> Len(col_oids_), freed |-> 0]>>
            /\ table_buffer_' = Len(heap) + 1
            /\ index_buffer_' = Len(heap) + 2
            /\ UNCHANGED it_pc
    /\ UNCHANGED <<col_oids_, asserts_on>>
    /\ UNCHANGED <<index_vars, pipe_vars, sema_vars, output, curr_count_, expected_count_,
                   prev_val_, col_idx_, sort_arg, callbacks, batches, expect_failed,
                   num_verdict, ns_vars, plan_vars, writer_vars>>

\* IndexIterator::~IndexIterator(): delete[] index_buffer_; delete[]
\* table_buffer_; delete[] of nullptr does nothing.
IndexIteratorDestroy ==
    /\ it_pc = "live"
    /\ it_pc' = "destroyed"
    /\ heap' = [i \in 1..Len(heap) |->
                    IF i \in {index_buffer_, table_buffer_}
                    THEN [heap[i] EXCEPT !.freed = @ + 1] ELSE heap[i]]
    /\ UNCHANGED <<col_oids_, table_buffer_, index_buffer_, asserts_on>>
    /\ UNCHANGED <<index_vars, pipe_vars, sema_vars, output, curr_count_, expected_count_,
                   prev_val_, col_idx_, sort_arg, callbacks, batches, expect_failed,
                   num_verdict, ns_vars, plan_vars, writer_vars>>

\* IndexIterator::IndexIterator(table_oid, index_oid, exec_ctx) in a build with
\* or without assertions: no column oid yet, both buffer pointers null.
InitIndexIterator ==
    /\ InitIndexManager
    /\ PipelineConstructed(0)
    /\ SemaIdle
    /\ UnitsIdle("iterator")
    /\ col_oids_ = <<>>
    /\ table_buffer_ = 0
    /\ index_buffer_ = 0
    /\ heap = <<>>
    /\ it_pc = "live"
    /\ asserts_on \in BOOLEAN

SpecIndexIterator ==
    InitIndexIterator
        /\ [][(\E col_oid \in 1..MaxColOids : IndexIteratorAddCol(col_oid))
              \/ IndexIteratorInit \/ IndexIteratorDestroy]_vars

\* ------------------------------------------------ plan_node::IndexScanPlanNode
\* An index-scan plan node: its predicate (0 for nullptr, else the expression
\* pointed to), the output schema pointed to, is_for_update and its children.
PlanNodes ==
    [type : {"INDEXSCAN"}, predicate : 0..MaxPredicates, output_schema : 1..MaxPredicates,
     is_for_update : BOOLEAN, children : {<<>>, <<"child">>}]

\* common::HashUtil::CombineHashes on 8-bit hash values.
CombineHashes(l, r) == (l * 31 + r + 7) % 256

\* IndexScanPlanNode::Hash(): the hash of the plan node type, combined with the
\* predicate's hash when there is a predicate, with the hash of is_for_update
\* and with AbstractPlanNode::Hash(), the hash of what the base class compares.
IndexScanPlanNodeHash(node) ==
    LET type_hash == 41
        with_pred == IF node.predicate # 0
                     THEN CombineHashes(type_hash, 17 * node.predicate)
                     ELSE type_hash
        with_update == CombineHashes(with_pred, IF node.is_for_update THEN 1 ELSE 0)
        AbstractPlanNodeHash ==
            CombineHashes(CombineHashes(type_hash, 13 * node.output_schema),
                          Len(node.children))
    IN CombineHashes(with_update, AbstractPlanNodeHash)

\* Mutant of IndexScanPlanNodeEquals: two predicates are not compared.
IndexScanPlanNodeEqualsAnyPredicate(node, other) ==
    IF node.type # other.type THEN FALSE
    ELSE IF (node.predicate = 0) # (other.predicate = 0) THEN FALSE
    ELSE IF node.output_schema # other.output_schema THEN FALSE
    ELSE IF node.is_for_update # other.is_for_update THEN FALSE
    ELSE node.output_schema = other.output_schema /\ node.children = other.children

\* IndexScanPlanNode::operator==(rhs): false on different plan node types, on
\* exactly one null predicate, on two different predicates, on different
\* output schemas and on different is_for_update; else the result of
\* AbstractPlanNode::operator==, which compares output schema and children.
IndexScanPlanNodeEquals(node, other) ==
    IF node.type # other.type THEN FALSE
    ELSE IF (node.predicate = 0) # (other.predicate = 0) THEN FALSE
    ELSE IF node.predicate # 0 /\ node.predicate # other.predicate THEN FALSE
    ELSE IF node.output_schema # other.output_schema THEN FALSE
    ELSE IF node.is_for_update # other.is_for_update THEN FALSE
    ELSE node.output_schema = other.output_schema /\ node.children = other.children

\* Both nodes are hashed and compared, each with the other.
PlanCompare ==
    /\ ~plan_out.done
    /\ plan_out' = [done |-> TRUE,
                    hash_lhs |-> IndexScanPlanNodeHash(lhs),
                    hash_rhs |-> IndexScanPlanNodeHash(rhs),
                    lhs_eq_rhs |-> IndexScanPlanNodeEquals(lhs, rhs),
                    rhs_eq_lhs |-> IndexScanPlanNodeEquals(rhs, lhs)]
    /\ UNCHANGED <<lhs, rhs>>
    /\ UNCHANGED <<index_vars, pipe_vars, sema_vars, output, curr_count_, expected_count_,
                   prev_val_, col_idx_, sort_arg, callbacks, batches, expect_failed,
                   num_verdict, ns_vars, iter_vars, writer_vars>>

InitPlan ==
    /\ InitIndexManager
    /\ PipelineConstructed(0)
    /\ SemaIdle
    /\ UnitsIdle("plan")
    /\ lhs \in PlanNodes
    /\ rhs \in PlanNodes
    /\ plan_out = [done |-> FALSE]

SpecPlan == InitPlan /\ [][PlanCompare]_vars

\* ------------------------------------------------------------ properties
T1Committed == txn1_end = "committed"
T2Committed == build_commit_time # NoTime
\* The busy-wait of CreateConcurrently has ended.
PastBarrier == c_pc \in {"begin_build", "set_ready", "populate", "commit2"} \/ T2Committed
\* The newest committed version of the new index's row.
NewestEntry == catalog[NewIndex][Len(catalog[NewIndex])].entry
\* A reader transaction that has looked the new index up.
Reader(w) == wk[w].txn # NoTxn /\ wk[w].read

\* C1: no reader transaction whose start timestamp is below commit_ts(T1)
\* (or that runs while T1 has not committed) observes the new index entry.
C1_OnlineBuildSafety ==
    \A w \in Workers :
        (Reader(w) /\ (~T1Committed \/ wk[w].txn < commit_time)) => ~wk[w].seen.present

\* A transaction older than T1's commit looked the index up after T1 committed.
C1_Witness ==
    \E w \in Workers :
        /\ Reader(w) /\ T1Committed /\ wk[w].txn < commit_time
        /\ wk[w].versions >= 1 /\ ~wk[w].seen.present

\* C2: a transaction with start timestamp ts sees the entry iff
\* ts >= commit_ts(T1), and treats the index as usable (sees it with
\* indisvalid) iff ts >= commit_ts(T2) and the committed indisvalid is true.
C2_VisibilityAndUsability ==
    \A w \in Workers :
        Reader(w) =>
            /\ wk[w].seen.present <=> (T1Committed /\ wk[w].txn >= commit_time)
            /\ (wk[w].seen.present /\ wk[w].seen.indisvalid)
                  <=> (T2Committed /\ wk[w].txn >= build_commit_time
                       /\ NewestEntry.indisvalid)

\* A transaction that started after T2 committed found the index usable.
C2_Witness ==
    \E w \in Workers :
        /\ Reader(w) /\ T2Committed /\ wk[w].txn >= build_commit_time
        /\ wk[w].seen.present /\ wk[w].seen.indisvalid

\* C3: when T2 is about to begin, and from then on, the oldest active start
\* timestamp has reached commit_ts(T1): no transaction that started before T1
\* committed is still active.
C3_BarrierBeforeBuild ==
    PastBarrier =>
        /\ OldestTransactionStartTime >= commit_time
        /\ \A a \in active : a >= commit_time

\* T2 is about to begin while a transaction that started after T1's commit runs.
C3_Witness ==
    /\ c_pc = "begin_build"
    /\ \E w \in Workers : wk[w].txn > commit_time

\* C4: the entry T1 committed carries indisready, not indisvalid, not
\* indisprimary, not indislive and the caller's unique_index, and until T2
\* begins the building flag of the index is false.
C4_EntryAtT1Commit ==
    T1Committed =>
        /\ \E i \in 1..Len(catalog[index_oid]) :
              /\ catalog[index_oid][i].ts = commit_time
              /\ catalog[index_oid][i].entry =
                     [present |-> TRUE, indisready |-> TRUE, indisvalid |-> FALSE,
                      indisprimary |-> FALSE, indislive |-> FALSE,
                      indisunique |-> unique_index, indexptr |-> index]
        /\ c_pc \in {"barrier", "begin_build"} => building[index_oid] = "false"

\* T1 has just committed the entry of a unique index.
C4_Witness == T1Committed /\ c_pc = "barrier" /\ unique_index

\* Every selected tuple of the base table has its key in the index, and no
\* insertion of the scan can have failed.
ScanSucceeded ==
    /\ \A i \in 1..Len(sql_table) :
          sql_table[i].selected => <<sql_table[i].key, i>> \in index_keys
    /\ unique_index =>
          \A i, j \in 1..Len(sql_table) :
              (sql_table[i].selected /\ sql_table[j].selected /\ i # j)
                  => sql_table[i].key # sql_table[j].key

\* C5: after T2 commits the entry has indisready = false and indisvalid equal
\* to PopulateIndex's result, and no committed version of the entry has
\* indisvalid = true unless T2's scan ran to the end with no failed insertion.
C5_ValidOnlyAfterFullBuild ==
    /\ T2Committed =>
          /\ NewestEntry.present
          /\ ~NewestEntry.indisready
          /\ NewestEntry.indisvalid = success
    /\ \A i \in 1..Len(catalog[NewIndex]) :
          (catalog[NewIndex][i].entry.present /\ catalog[NewIndex][i].entry.indisvalid)
              => (T2Committed /\ scan_pos > Len(sql_table) /\ ScanSucceeded)

\* T2 committed a valid unique index over a table of two selected tuples.
C5_Witness ==
    /\ T2Committed /\ NewestEntry.indisvalid /\ unique_index
    /\ Cardinality(index_keys) >= 2

\* C6: there is no state in which T2 has begun and the building flag is not
\* true, so no transaction gets a start timestamp between the two.
C6_FlagSetAtBuildBegin ==
    build_txn # NoTxn =>
        /\ build_txn \in active => building[index_oid] = "true"
        /\ \A w \in Workers : wk[w].txn > build_txn => building[index_oid] = "true"

\* A transaction started right after T2 began.
C6_Witness ==
    /\ build_txn \in active
    /\ \E w \in Workers : wk[w].txn = build_txn + 1

\* C7: after T2 has committed the building flag is false again.
C7_FlagResetAfterBuild ==
    T2Committed => building[index_oid] = "false"

C9_MissingTableLeavesNoState ==
    /\ (c_pc = "done" /\ table_oid = NoSuchTable) =>
          /\ txn1_end = "aborted"
          /\ txn1 \notin active
          /\ catalog[NewIndex] = <<>>
          /\ c_write = NoWrite
          /\ \A o \in IndexOids : building[o] = "unset"
          /\ index_obj[NewIndex] = "none"
          /\ index_keys = {}
          /\ commit_time = NoTime
          /\ build_txn = NoTxn
    /\ \A d \in Droppers :
          (dr[d].pc = "done" /\ dr[d].table_oid = NoSuchTable) =>
              /\ dr[d].end = "aborted"
              /\ dr[d].txn \notin active
              /\ ~dr[d].write
              /\ ~dr[d].destroyed
              /\ dr[d].commit_time = NoTime
    /\ (\A d \in Droppers : dr[d].pc = "idle" \/ dr[d].table_oid = NoSuchTable) =>
          /\ catalog[OldIndex] = <<[ts |-> 0, entry |-> OldEntry]>>
          /\ index_obj[OldIndex] = "alive"
          /\ destroys = 0

\* Both calls were made with a missing table and have returned.
C9_Witness ==
    /\ c_pc = "done" /\ table_oid = NoSuchTable
    /\ dr["d1"].pc = "done" /\ dr["d1"].table_oid = NoSuchTable

Scanned == {i \in 1..Len(sql_table) : i < scan_pos}
VisibleRows == {i \in 1..Len(sql_table) : sql_table[i].selected}
PopulateReturned == c_pc \in {"commit2", "done"}

\* C11: PopulateIndex with unique_index = true.  At every point of the scan
\* the index holds exactly one key for every visible tuple scanned so far and
\* nothing for the tuples Select refused; when it returns true the number of
\* keys equals the number of visible tuples; when an InsertUnique fails the
\* scan stays at that tuple (a visible one whose key an earlier visible tuple
\* already holds), nothing is inserted afterwards and it returns false.
C11_UniquePopulate ==
    (unique_index /\ c_pc \in {"populate", "commit2", "done"}) =>
        /\ index_keys = {<<sql_table[i].key, i>> : i \in Scanned \cap VisibleRows}
        /\ \A p, q \in index_keys : p[1] = q[1] => p = q
        /\ (PopulateReturned /\ success) =>
               /\ scan_pos = Len(sql_table) + 1
               /\ Cardinality(index_keys) = Cardinality(VisibleRows)
        /\ ~success =>
               /\ scan_pos \in VisibleRows
               /\ \E j \in Scanned \cap VisibleRows :
                      sql_table[j].key = sql_table[scan_pos].key
        /\ (PopulateReturned /\ scan_pos <= Len(sql_table)) => ~success

\* A unique build that skipped a tuple Select refused, inserted one key, failed
\* on a later visible tuple and returned with a visible tuple left unscanned.
C11_Witness ==
    /\ unique_index
    /\ PopulateReturned
    /\ ~success
    /\ scan_pos < Len(sql_table)
    /\ sql_table[Len(sql_table)].selected
    /\ Scanned \ VisibleRows # {}
    /\ Cardinality(index_keys) = 1

\* ---------------------------------------------------------------- claim C12
\* C12: after translators t1..tn have been added, the k-th NextStep call
\* returns t(n-k+1) for k <= n (tail first) and none from call n+1 on.
C12_TailFirst ==
    \A k \in 1..Len(returned) :
        returned[k] = IF k <= Len(pipeline_)
                      THEN pipeline_[Len(pipeline_) - k + 1]
                      ELSE NullPtr

\* ------------------------------------------------------- claims C13 .. C20
\* Sema::CheckBuiltinCall has run on the call.
Analysed == sema_pc \in {"checked", "fault"}
\* Argument i (from 1) of call c is one whose resolution fails.
Unresolvable(c, i) ==
    IF c.builtin = "PtrCast" /\ i = 1 /\ c.args[i].form = "star"
    THEN c.args[i].repr = Unresolved
    ELSE c.args[i].type = Unresolved
Poisoned(c) == \E i \in 1..Len(c.args) : Unresolvable(c, i)
\* The check returned having reported nothing and set the type t.
AcceptedAs(t) == sema_pc = "checked" /\ errors = <<>> /\ call_type = t
Accepted == sema_pc = "checked" /\ errors = <<>> /\ call_type # Unresolved
\* The check returned having reported one diagnostic and set no type.
RejectedOnce == sema_pc = "checked" /\ Len(errors) = 1 /\ call_type = Unresolved
\* The result types the row of call c allows.
ExpectedResults(c) ==
    IF c.builtin = "PtrCast" THEN {c.args[1].repr} ELSE Contract(c.builtin).result

\* C13: every call of an enumerated intrinsic whose arguments all resolve and
\* that violates its row of the contract table (argument count or an argument
\* type) gets exactly one diagnostic and its type stays unresolved.
C13_ViolationOneDiagnostic ==
    (Analysed /\ call.builtin \in Builtins /\ ~Poisoned(call) /\ ~WellTyped(call))
        => RejectedOnce

\* C14: every call of an enumerated intrinsic that satisfies its row of the
\* contract table gets no diagnostic and the result type of that row.
C14_WellTypedResolved ==
    (Analysed /\ WellTyped(call))
        => (Accepted /\ call_type \in ExpectedResults(call))

\* C15: IndexIteratorInit with the three arguments of its row is accepted with
\* type nil; with any other number of (resolved) arguments it gets one
\* diagnostic.
C15_IndexIteratorInitArity ==
    (Analysed /\ call.builtin = "IndexIteratorInit" /\ ~Poisoned(call)) =>
        /\ WellTyped(call) => AcceptedAs(BT("Nil"))
        /\ Len(call.args) # 3 => RejectedOnce

\* C16: a 7-argument AggHashTableProcessBatch is accepted only with a
\* **ProjectedColumnsIterator as argument 1; any other type there gives one
\* diagnostic and no type.
C16_ProcessBatchPCIPointer ==
    (Analysed /\ call.builtin = "AggHashTableProcessBatch" /\ Len(call.args) = 7
        /\ ~Poisoned(call)) =>
        IF call.args[2].type = PointerTo(PointerTo(BT("ProjectedColumnsIterator")))
        THEN WellTyped(call) => AcceptedAs(BT("Nil"))
        ELSE RejectedOnce

\* C17: JoinHashTableBuild is accepted only with exactly one argument, a
\* *JoinHashTable; with two or more arguments it gets one diagnostic and no
\* type.
C17_JoinHashTableBuildArity ==
    (Analysed /\ call.builtin = "JoinHashTableBuild" /\ ~Poisoned(call)) =>
        /\ Accepted => (WellTyped(call) /\ call_type = BT("Nil"))
        /\ Len(call.args) >= 2 => RejectedOnce

\* C18: SorterSortParallel and SorterSortTopKParallel are accepted only with
\* the 3, respectively 4, arguments of their rows; any other argument count
\* gives the one arity diagnostic, and no argument that was not supplied is
\* read.
C18_SorterSortParallelArity ==
    (Analysed /\ call.builtin \in SorterSortBuiltins /\ ~Poisoned(call)) =>
        /\ Accepted => (WellTyped(call) /\ call_type = BT("Nil"))
        /\ Len(call.args) # Len(Contract(call.builtin).params) =>
              (RejectedOnce /\ errors = <<"kMismatchedCallArgs">>)
        /\ ~past_end

\* C19: PCIMatch(pci, v) with a *ProjectedColumnsIterator pci.  v of type
\* SqlBool: argument 1 becomes a SqlBool-to-bool cast node around v and the
\* call is nil.  v of native bool: the arguments stay as they were and the call
\* is nil.  v of any other type: one diagnostic, no type.
C19_PCIMatchCoercion ==
    (Analysed /\ call.builtin = "PCIMatch" /\ Len(call.args) = 2 /\ ~Poisoned(call)
        /\ call.args[1].type = PointerTo(BT("ProjectedColumnsIterator"))) =>
        LET v == call.args[2]
        IN CASE v.type = BT("Boolean") ->
                    /\ AcceptedAs(BT("Nil"))
                    /\ arguments[1] = call.args[1]
                    /\ arguments[2].form = "implicit_cast"
                    /\ arguments[2].cast_kind = "SqlBoolToBool"
                    /\ arguments[2].input = v
                    /\ arguments[2].type = BT("Bool")
             [] v.type = BT("Bool") ->
                    /\ AcceptedAs(BT("Nil"))
                    /\ arguments = call.args
             [] OTHER ->
                    /\ RejectedOnce
                    /\ errors = <<"kIncorrectCallArgType">>

\* A PCIMatch whose SqlBool match value was wrapped in the cast.
C19_Witness ==
    /\ sema_pc = "checked"
    /\ call.builtin = "PCIMatch"
    /\ Len(call.args) = 2
    /\ call.args[2].type = BT("Boolean")
    /\ arguments[2].form = "implicit_cast"
    /\ call_type = BT("Nil")

PtrCastShapeOK(c) == Len(c.args) = 2 /\ c.args[1].form = "star"

RECURSIVE Concat(_)
Concat(ss) == IF ss = <<>> THEN <<>> ELSE ss[1] \o Concat(Tail(ss))
Column(col) == [i \in 1..Len(Concat(batches)) |-> Concat(batches)[i][col + 1]]
RECURSIVE SumSeq(_)
SumSeq(ns) == IF ns = <<>> THEN 0 ELSE ns[1] + SumSeq(Tail(ns))
\* Every non-null value is >= the non-null value before it, if any, and a null
\* is the first value or directly follows a null.
SortedNullsFirst(s) ==
    \A i \in 1..Len(s) :
        IF s[i].is_null
        THEN i = 1 \/ s[i - 1].is_null
        ELSE \A j \in 1..(i - 1) :
                (~s[j].is_null /\ \A k \in (j + 1)..(i - 1) : s[k].is_null)
                    => s[i].val >= s[j].val

\* C21: over all batches handed to ProcessBatch so far, in order, no EXPECT_TRUE
\* of SingleIntSortChecker has failed iff, in the column the checker reads,
\* every non-null value is >= the previous non-null value and a null occurs
\* only first or directly after a null.
C21_SortCheckerAcrossBatches ==
    ~expect_failed <=> SortedNullsFirst(Column(col_idx_))

\* A passing run of two batches of one tuple each that hold the same value.
C21_Witness ==
    /\ Len(batches) = 2
    /\ Len(batches[1]) = 1
    /\ Len(batches[2]) = 1
    /\ ~Column(col_idx_)[1].is_null
    /\ ~Column(col_idx_)[2].is_null
    /\ Column(col_idx_)[2].val = Column(col_idx_)[1].val
    /\ ~expect_failed

\* C22: a SingleIntSortChecker constructed with col_idx # 0 passes iff the
\* column col_idx of the batches is sorted, whatever column 0 holds.
C22_SortCheckerUsesItsColumn ==
    sort_arg # 0 => (~expect_failed <=> SortedNullsFirst(Column(sort_arg)))

\* C23: the k callbacks so far led to exactly k ProcessBatch calls, the i-th
\* with exactly the num_tuples of the i-th callback, and NumChecker passes
\* CheckCorrectness iff the counts add up to its expected count.
C23_OutputCountPreserved ==
    /\ Len(batches) = Len(callbacks)
    /\ \A i \in 1..Len(callbacks) : Len(batches[i]) = callbacks[i]
    /\ num_verdict # "none" => (num_verdict = "pass" <=> SumSeq(callbacks) = expected_count_)

\* Two non-empty callbacks whose counts add up to the expected count, passed.
C23_Witness ==
    /\ Len(callbacks) = 2
    /\ callbacks[1] = 1
    /\ callbacks[2] = 1
    /\ num_verdict = "pass"

\* ------------------------------------------------------------- claim C24
\* C24: a lookup by oid is null iff no row has column 0 equal to the oid, and
\* else gives an entry of that row carrying the oid; a lookup by name is null
\* iff no row has column 1 equal to the name, and else gives an entry whose oid
\* is column 0 of its row, for which the lookup by oid gives the same row.
C24_NamespaceLookupsAgree ==
    \A i \in 1..Len(ns_log) :
        LET key == ns_log[i].key
            entry == ns_log[i].entry
        IN IF key.by = "oid"
           THEN /\ entry.null <=> ~\E j \in 1..Len(pg_namespace) :
                                        pg_namespace[j][1] = key.oid.ns_oid
                /\ ~entry.null => /\ pg_namespace[entry.row][1] = key.oid.ns_oid
                                  /\ entry.oid = key.oid
           ELSE /\ entry.null <=> ~\E j \in 1..Len(pg_namespace) :
                                        pg_namespace[j][2] = key.name
                /\ ~entry.null => /\ pg_namespace[entry.row][2] = key.name
                                  /\ entry.oid.ns_oid = pg_namespace[entry.row][1]
                                  /\ GetNamespaceEntry(entry.oid).row = entry.row

\* A name found in the second row of the table, then its oid looked up.
C24_Witness ==
    /\ Len(ns_log) = 2
    /\ ns_log[1].key.by = "name"
    /\ ~ns_log[1].entry.null
    /\ ns_log[1].entry.row = 2
    /\ ns_log[2].key.by = "oid"
    /\ ns_log[2].key.oid = ns_log[1].entry.oid
    /\ ns_log[2].entry.row = 2

\* ------------------------------------------------------------- claim C26
\* C26: once the iterator is destroyed every buffer that Init allocated has
\* been freed exactly once, and before that none has been freed.
C26_BuffersFreedExactlyOnce ==
    /\ it_pc = "destroyed" => \A i \in 1..Len(heap) : heap[i].freed = 1
    /\ it_pc = "live" => \A i \in 1..Len(heap) : heap[i].freed = 0

\* ------------------------------------------------------------- claim C27
\* C27: if every transaction that is in flight during the wait and began before
\* T1 committed eventually ends, then the wait that follows T1's commit ends and
\* T2 commits, whatever transactions begin in the meantime.
C27_BarrierExitsAndBuildCommits ==
    (\A w \in Workers :
        [](((c_pc = "barrier") /\ (wk[w].txn # NoTxn) /\ (wk[w].txn < commit_time))
              => <>(wk[w].txn = NoTxn)))
        => ((c_pc = "barrier") ~> ((c_pc = "done") /\ (build_commit_time # NoTime)))

\* The call waits for a transaction that began before T1 committed.
C27_Witness ==
    /\ c_pc = "barrier"
    /\ \E w \in Workers : wk[w].txn # NoTxn /\ wk[w].txn < commit_time
    /\ ~CreateBarrierExit(commit_time)

\* ------------------------------------------------------------- claim C28
\* C28: whatever the interleaving of the Drop calls on the index, its container
\* is deleted at most once, no call reads through a null index_entry, and the
\* program does not fault.
C28_DestroyedAtMostOnce ==
    /\ destroys <= 1
    /\ ~wild_delete
    /\ ~crashed

\* ------------------------------------------------------------- claim C29
\* The committed rows of the base table: those the build's scan was given, and
\* those of writers that committed.
CommittedRows ==
    {i \in 1..Len(sql_table) :
        \/ sql_table[i].selected
        \/ \E j \in 1..Len(written) : written[j].slot = i /\ written[j].state = "committed"}

\* C29: once T2 has committed with indisvalid = true, every committed row of
\* the base table has exactly one key in the index, and it is the row's key.
C29_IndexComplete ==
    (/\ c_pc = "done"
     /\ build_commit_time # NoTime
     /\ VisibleEntry(catalog[NewIndex], time).present
     /\ VisibleEntry(catalog[NewIndex], time).indisvalid)
        => \A i \in CommittedRows :
               {p \in index_keys : p[2] = i} = {<<sql_table[i].key, i>>}

\* ------------------------------------------------------------- claim C30
\* C30: for two index-scan plan nodes, equal nodes have equal hashes; lhs == rhs
\* iff rhs == lhs; and nodes of which exactly one has a predicate, or which
\* differ in predicate, output schema or is_for_update, are unequal.
C30_HashEqualityConsistent ==
    plan_out.done =>
        /\ plan_out.lhs_eq_rhs => plan_out.hash_lhs = plan_out.hash_rhs
        /\ plan_out.lhs_eq_rhs = plan_out.rhs_eq_lhs
        /\ (\/ lhs.predicate # rhs.predicate
            \/ lhs.output_schema # rhs.output_schema
            \/ lhs.is_for_update # rhs.is_for_update) => ~plan_out.lhs_eq_rhs

\* Two nodes for update with a predicate each that were hashed and found equal.
C30_Witness ==
    /\ plan_out.done
    /\ lhs.predicate # 0
    /\ rhs.predicate # 0
    /\ lhs.is_for_update
    /\ plan_out.lhs_eq_rhs
====
